---- MODULE Spec2Model ----
(***************************************************************************)
(* A model of the opiqo-multi LV2 plugin host core:                        *)
(*   - lv2_ringbuffer.h : the single-producer single-consumer byte FIFO    *)
(*   - LV2Plugin.hpp    : controls, atom ports, process(), worker          *)
(*   - jni_bridge.cpp   : the chain of four plugin slots                   *)
(*   - LV2OboeHost.hpp  : the Oboe-embedded host (src/unnamed/part_000)    *)
(*                                                                         *)
(* The module holds several specifications over one set of variables.      *)
(* Each specification exercises one component; the variables of the other  *)
(* components stay at their initial values.                                *)
(***************************************************************************)
EXTENDS Naturals, Integers, Sequences, FiniteSets, TLC

VARIABLES
    \* ---- lv2_ringbuffer_t -------------------------------------------
    buf,            \* rb->buf : cell index -> byte
    write_ptr,      \* rb->write_ptr (atomic size_t)
    read_ptr,       \* rb->read_ptr  (atomic size_t)
    writer,         \* the writer thread inside lv2_ringbuffer_write
    reader,         \* the reader thread inside lv2_ringbuffer_peek/_read
    written,        \* history: the bytes accepted by completed writes
    readout,        \* history: the bytes returned by completed reads
    \* ---- one atom input port: UI -> DSP ------------------------------
    host,           \* which host class runs: "LV2Plugin" or "LV2OboeHost"
    ctl_atom,       \* AtomPortControl::atom_state_ (the control's AtomState)
    port_atom,      \* Port::atom_state (the AtomState process() looks at)
    ui,             \* the UI thread inside setValue / set_atom_message
    dsp,            \* the audio thread inside process() / onAudioReady()
    atom_seq,       \* the events of the port's LV2_Atom_Sequence
    observed,       \* history: the events the plugin's run() was given
    ui_sent,        \* history: the number of UI writes begun
    served,         \* history: the last UI write that had completed when a
                    \* DSP cycle, since finished, began
    \* ---- the chain: engine->plugin1 .. plugin4 ------------------------
    plugin_slot,    \* slot 1..4 -> the LV2Plugin* it holds (0 is nullptr)
    inst,           \* LV2Plugin object -> its lifecycle state and ports
    effect_on,      \* the engine's effect switch (setEffectOn)
    jni,            \* the UI thread inside a JNI call
    audio,          \* the audio thread inside Engine.process
    crashed,        \* the process has died (null dereference, abort)
    chain_changed,  \* history: a slot changed during the audio call
    \* ---- one ControlPortFloat ------------------------------------------
    cpf,            \* its fields value_, defvalue_, minval_, maxval_
    cpf_last,       \* history: the last setValue and what getValue returned
    \* ---- the URID registries -----------------------------------------
    urid_map,       \* registry -> urid_map_ (string -> id, 0 is absent)
    urid_unmap,     \* registry -> urid_unmap_ (id -> string)
    urid_issued,    \* history: every (registry, string, id) map_uri returned
    urid_last,      \* history: the unmap_uri call made since the last
                    \* map_uri, and its result
    \* ---- the worker ---------------------------------------------------
    req,            \* the request ring: buf, write_ptr, read_ptr
    sched,          \* the audio thread inside host_schedule_work
    wk,             \* the worker thread inside worker_thread_func
    work_pending,   \* host_worker_.work_pending
    scheduled,      \* history: the payloads schedule_work accepted
    worked,         \* history: the payloads handed to the plugin's work()
    sched_calls,    \* history: the number of schedule_work calls
    \* ---- Evt ---------------------------------------------------------
    evt_ring,       \* AtomState::dsp_to_ui: buf, write_ptr, read_ptr
    out_seq,        \* the events in the atom output port's sequence
    evt,            \* the audio thread inside Step E
    evt_emitted,    \* history: the number of events the plugin emitted
    evt_dropped,    \* history: the number of events Step E passed over
    ui_read,        \* the last readAtomMessage: return value and bytes
    \* ---- one LV2Plugin's lifecycle ------------------------------------
    lv2,            \* one LV2Plugin: shutdown_, instance_ (non-null),
                    \* the pending flag of its atom input port
    proc,           \* the audio thread inside LV2Plugin::process
    \* ---- State -------------------------------------------------------
    st_inst,        \* instance_ is non-null
    st_control,     \* the control port's scalar, ports_[i].control
    st_file,        \* the state file on disk
    st_last,        \* history: the last saveState / loadState call
    st_crashed,     \* the process has died
    \* ---- Tear --------------------------------------------------------
    pl,             \* one LV2Plugin object: what its members hold
    heap,           \* the state of each allocation of the object
    cl,             \* the thread inside closePlugin: position, caller, history of steps
    wt,             \* the worker thread: position, history
    tp,             \* the audio thread inside process(): position, history
    init_last,      \* history: the outcome of initialize()
    \* ---- Resp --------------------------------------------------------
    resp,           \* the response ring of the worker
    rsp,            \* the worker thread inside host_respond
    drain,          \* the audio thread inside deliver_worker_responses
    responded,      \* history: the payloads host_respond accepted, in order
    delivered,      \* history: the payloads passed to work_response, in order
    resp_calls,     \* the number of host_respond calls so far
    \* ---- Seq ---------------------------------------------------------
    sq_host,        \* the host class the ports belong to
    sq_slot,        \* the port's AtomState: ui_to_dsp_pending, ui_to_dsp.size()
    sq_in,          \* the atom input port: header type and size, history of the last append
    sq_out,         \* the atom output port: header type and size
    sq_scratch,     \* evbuf of Step B: its length and the bytes written to it
    sq,             \* the audio thread: position in the cycle, history
    \* ---- Bind --------------------------------------------------------
    bd_control,     \* the port's PluginControl (a ControlPortFloat)
    bd_port,        \* the port's entry in ports_: defvalue, control
    bd_run          \* history: what the last run() read and what getValue returned then

rbVars == <<buf, write_ptr, read_ptr, writer, reader, written, readout>>

atomVars == <<host, ctl_atom, port_atom, ui, dsp, atom_seq, observed,
              ui_sent, served>>

chainVars == <<plugin_slot, inst, effect_on, jni, audio, crashed,
               chain_changed>>

cpfVars == <<cpf, cpf_last>>

uridVars == <<urid_map, urid_unmap, urid_issued, urid_last>>

workVars == <<req, sched, wk, work_pending, scheduled, worked, sched_calls>>

evtVars == <<evt_ring, out_seq, evt, evt_emitted, evt_dropped, ui_read>>

lifeVars == <<lv2, proc>>

stateVars == <<st_inst, st_control, st_file, st_last, st_crashed>>

tearVars == <<pl, heap, cl, wt, tp, init_last>>

respVars == <<resp, rsp, drain, responded, delivered, resp_calls>>

seqVars == <<sq_host, sq_slot, sq_in, sq_out, sq_scratch, sq>>

bindVars == <<bd_control, bd_port, bd_run>>

vars == <<rbVars, atomVars, chainVars, cpfVars, uridVars, workVars, evtVars, lifeVars, stateVars, tearVars, respVars, seqVars, bindVars>>

\* what the actions of one component leave alone
notRb == <<atomVars, chainVars, cpfVars, uridVars, workVars, evtVars, lifeVars, stateVars, tearVars, respVars, seqVars, bindVars>>

notAtom == <<rbVars, chainVars, cpfVars, uridVars, workVars, evtVars, lifeVars, stateVars, tearVars, respVars, seqVars, bindVars>>

notChain == <<rbVars, atomVars, cpfVars, uridVars, workVars, evtVars, lifeVars, stateVars, tearVars, respVars, seqVars, bindVars>>

notCpf == <<rbVars, atomVars, chainVars, uridVars, workVars, evtVars, lifeVars, stateVars, tearVars, respVars, seqVars, bindVars>>

notUrid == <<rbVars, atomVars, chainVars, cpfVars, workVars, evtVars, lifeVars, stateVars, tearVars, respVars, seqVars, bindVars>>

notWork == <<rbVars, atomVars, chainVars, cpfVars, uridVars, evtVars, lifeVars, stateVars, tearVars, respVars, seqVars, bindVars>>

notEvt == <<rbVars, atomVars, chainVars, cpfVars, uridVars, workVars, lifeVars, stateVars, tearVars, respVars, seqVars, bindVars>>

notLife == <<rbVars, atomVars, chainVars, cpfVars, uridVars, workVars, evtVars, stateVars, tearVars, respVars, seqVars, bindVars>>

notState == <<rbVars, atomVars, chainVars, cpfVars, uridVars, workVars, evtVars, lifeVars, tearVars, respVars, seqVars, bindVars>>

notTear == <<rbVars, atomVars, chainVars, cpfVars, uridVars, workVars, evtVars, lifeVars, stateVars, respVars, seqVars, bindVars>>

notResp == <<rbVars, atomVars, chainVars, cpfVars, uridVars, workVars, evtVars, lifeVars, stateVars, tearVars, seqVars, bindVars>>

notSeq == <<rbVars, atomVars, chainVars, cpfVars, uridVars, workVars, evtVars, lifeVars, stateVars, tearVars, respVars, bindVars>>

notBind == <<rbVars, atomVars, chainVars, cpfVars, uridVars, workVars, evtVars, lifeVars, stateVars, tearVars, respVars, seqVars>>

(***************************************************************************)
(* Bounds                                                                  *)
(***************************************************************************)
\* log2 of the ring capacity: lv2_ringbuffer_create accepts powers of two only
RbExp == 1
\* the writer stops offering bytes once this many have been accepted
MaxBytes == 4
\* the largest cnt a single write / read / peek call is given
MaxCnt == 3
\* the number of messages the UI thread writes to the atom input port
MaxMsgs == 2
\* the number of LV2Plugin objects the UI thread creates with `new`
MaxInst == 2
\* audio samples are the integers modulo this
SampleMod == 3
\* the largest bound or default a control port declares
MaxRange == 2
\* the number of URI strings the plugins and the host map
MaxUris == 3
\* the largest payload the plugin passes to schedule_work
MaxWork == 2
\* the number of schedule_work calls
MaxRecs == 3
\* the largest body of an event the plugin emits
MaxBody == 2
\* the number of events the plugin emits
MaxEmit == 5
\* the number of events the plugin emits in one cycle
MaxPerCycle == 2

\* the size of an atom port's buffer, in units of 8 bytes
MaxBufWords == 4

\* the process() cycles told apart: the first, and the later ones
MaxCycles == 2

(***************************************************************************)
(* Ring buffer: lv2_ringbuffer.h                                           *)
(***************************************************************************)
\* size_t arithmetic wraps.  TLC's integers are 32 bit wide, so size_t is
\* modelled 30 bits wide; an underflow of w - r shows as a value far above
\* the capacity, as in C.  Only RbInitWrap starts the indices next to the
\* modulus.
SIZE_MOD == 2^30

\* rb->size, as set by lv2_ringbuffer_create(sz) for sz = 2^RbExp
RbSize == 2^RbExp

\* is_power_of_two(x): x && !(x & (x - 1))
RECURSIVE is_power_of_two(_)
is_power_of_two(x) ==
    IF x = 0 THEN FALSE
    ELSE IF x = 1 THEN TRUE
    ELSE IF x % 2 = 1 THEN FALSE
    ELSE is_power_of_two(x \div 2)

\* (idx & rb->size_mask) with size_mask = size - 1 and size a power of two
Masked(idx) == idx % RbSize

\* a cell that no write has stored to yet (aligned_alloc leaves it undefined);
\* payload bytes are numbered from 1, so the marker is never a payload byte
Garbage == 0

\* read_space computed without the wrap of size_t: the plain difference
ReadSpaceOf_nowrap(w, r) == w - r

\* lv2_ringbuffer_read_space on the loaded indices: w - r in size_t
ReadSpaceOf(w, r) == (w - r) % SIZE_MOD

\* a plausible slip: write() not looking at the free space at all
WriteSpaceOf_nospacecheck(w, r) == RbSize

\* lv2_ringbuffer_write_space on the loaded indices: size - read_space
WriteSpaceOf(w, r) == (RbSize - ReadSpaceOf(w, r)) % SIZE_MOD

lv2_ringbuffer_read_space == ReadSpaceOf(write_ptr, read_ptr)

lv2_ringbuffer_write_space == WriteSpaceOf(write_ptr, read_ptr)

\* a plausible slip: the truncation `if (cnt > avail) cnt = avail` left out
ClampCnt_noclamp(cnt, avail) == cnt

\* if (cnt > avail) cnt = avail;
ClampCnt(cnt, avail) == IF cnt > avail THEN avail ELSE cnt

\* where the release store of the write index sits relative to the copy
\* loop, had it been placed before the loop
WritePtrAfter_publish_first(phase, w, cnt) ==
    IF phase = "begin" THEN (w + cnt) % SIZE_MOD ELSE w

\* the value of rb->write_ptr after each phase of lv2_ringbuffer_write: the
\* entry leaves it alone, the fetch_add(cnt, release) follows the copy loop
WritePtrAfter(phase, w, cnt) ==
    IF phase = "end" THEN (w + cnt) % SIZE_MOD ELSE w

\* the k-th byte (from 0) of the src of the write call in progress: the
\* writer's stream is 1, 2, 3, ... so that loss, duplication and reordering
\* are all visible at the reader
SrcByte(k) == Len(written) + k + 1

\* history: the number of free cells, counted from the bytes accepted and
\* the bytes returned so far (not from the indices)
FreeNow == RbSize - (Len(written) - Len(readout))

Idle == [pc |-> "idle", req |-> 0, cnt |-> 0, idx |-> 0, i |-> 0,
         ret |-> 0, space0 |-> RbSize, stores |-> 0, peek |-> FALSE, dst |-> <<>>]

\* the ring after lv2_ringbuffer_create(RbSize): indices 0, cells undefined
RbInit ==
    /\ is_power_of_two(RbSize)
    /\ buf = [c \in 0..(RbSize - 1) |-> Garbage]
    /\ write_ptr = 0
    /\ read_ptr = 0
    /\ writer = Idle
    /\ reader = [Idle EXCEPT !.space0 = 0]
    /\ written = <<>>
    /\ readout = <<>>

\* the ring after so many bytes have passed through it that both indices
\* stand a few bytes short of the largest value of the index type
RbInitWrap ==
    /\ is_power_of_two(RbSize)
    /\ buf = [c \in 0..(RbSize - 1) |-> Garbage]
    /\ \E back \in 1..MaxBytes :
          /\ write_ptr = SIZE_MOD - back
          /\ read_ptr = SIZE_MOD - back
    /\ writer = Idle
    /\ reader = [Idle EXCEPT !.space0 = 0]
    /\ written = <<>>
    /\ readout = <<>>

\* lv2_ringbuffer_write, entry: space = write_space(rb); clamp cnt;
\* w = write_ptr.load(relaxed).  The load of read_ptr is the one access to
\* the other thread's index; write_ptr is the writer's own.
WriteBegin(cnt) ==
    /\ writer.pc = "idle"
    /\ Len(written) + cnt <= MaxBytes
    /\ LET space == WriteSpaceOf(write_ptr, read_ptr)
       IN /\ writer' = [writer EXCEPT !.pc = "copy", !.req = cnt,
                                      !.cnt = ClampCnt(cnt, space),
                                      !.idx = write_ptr, !.i = 0,
                                      !.space0 = FreeNow, !.stores = 0]
          /\ write_ptr' = WritePtrAfter("begin", write_ptr, ClampCnt(cnt, space))
    /\ UNCHANGED <<buf, read_ptr, reader, written, readout, notRb>>

\* one iteration of: rb->buf[(w + i) & rb->size_mask] = src[i];
WriteCopy ==
    /\ writer.pc = "copy"
    /\ writer.i < writer.cnt
    /\ buf' = [buf EXCEPT ![Masked(writer.idx + writer.i)] = SrcByte(writer.i)]
    /\ writer' = [writer EXCEPT !.i = @ + 1, !.stores = @ + 1]
    /\ UNCHANGED <<write_ptr, read_ptr, reader, written, readout, notRb>>

\* rb->write_ptr.fetch_add(cnt, release); return cnt;
WritePublish ==
    /\ writer.pc = "copy"
    /\ writer.i >= writer.cnt
    /\ write_ptr' = WritePtrAfter("end", write_ptr, writer.cnt)
    /\ written' = written \o [k \in 1..writer.cnt |-> SrcByte(k - 1)]
    /\ writer' = [writer EXCEPT !.pc = "idle", !.ret = writer.cnt]
    /\ UNCHANGED <<buf, read_ptr, reader, readout, notRb>>

\* lv2_ringbuffer_peek, entry (also the first line of lv2_ringbuffer_read):
\* avail = read_space(rb) with write_ptr loaded acquire; clamp cnt;
\* r = read_ptr.load(relaxed)
ReadBegin(cnt, peek) ==
    /\ reader.pc = "idle"
    /\ LET avail == ReadSpaceOf(write_ptr, read_ptr)
       IN reader' = [reader EXCEPT !.pc = "copy", !.req = cnt,
                                   !.cnt = ClampCnt(cnt, avail),
                                   !.idx = read_ptr, !.i = 0,
                                   !.space0 = RbSize - FreeNow,
                                   !.peek = peek, !.dst = <<>>]
    /\ UNCHANGED <<buf, write_ptr, read_ptr, writer, written, readout, notRb>>

\* one iteration of: dst[i] = rb->buf[(r + i) & rb->size_mask];
ReadCopy ==
    /\ reader.pc = "copy"
    /\ reader.i < reader.cnt
    /\ reader' = [reader EXCEPT !.i = @ + 1,
                     !.dst = Append(@, buf[Masked(reader.idx + reader.i)])]
    /\ UNCHANGED <<buf, write_ptr, read_ptr, writer, written, readout, notRb>>

\* lv2_ringbuffer_peek returns cnt; lv2_ringbuffer_read goes on to
\* rb->read_ptr.fetch_add(cnt, release) and returns cnt
ReadEnd ==
    /\ reader.pc = "copy"
    /\ reader.i >= reader.cnt
    /\ reader' = [reader EXCEPT !.pc = "idle", !.ret = reader.cnt]
    /\ IF reader.peek
         THEN UNCHANGED <<read_ptr, readout>>
         ELSE /\ read_ptr' = (read_ptr + reader.cnt) % SIZE_MOD
              /\ readout' = readout \o reader.dst
    /\ UNCHANGED <<buf, write_ptr, writer, written, notRb>>

NextRb ==
    \/ \E cnt \in 0..MaxCnt : WriteBegin(cnt)
    \/ WriteCopy
    \/ WritePublish
    \/ \E cnt \in 0..MaxCnt, peek \in BOOLEAN : ReadBegin(cnt, peek)
    \/ ReadCopy
    \/ ReadEnd

(***************************************************************************)
(* One atom input port, UI -> DSP.                                         *)
(*   LV2Plugin.hpp : AtomState, AtomPortControl::setValue, process Step B  *)
(*   LV2OboeHost   : set_atom_message, onAudioReady                        *)
(* A message is its number 1, 2, ...; an empty ui_to_dsp vector is 0.      *)
(***************************************************************************)
\* the bytes a reader gets from a std::vector another thread is assigning
Torn == -1

\* the message types (URIDs) the UI tags its messages with
MsgTypes == {1, 2}

\* the hosts of the repository that carry this code
Hosts == {"LV2Plugin", "LV2OboeHost"}

\* AtomState(): empty vector, type 0, pending false
NewAtomState == [ui_to_dsp |-> 0, ui_to_dsp_type |-> 0, ui_to_dsp_pending |-> FALSE]

\* took: history, the number of Step B exchanges that found the flag set
DspIdle == [pc |-> "idle", began |-> 0, took |-> 0]

\* took: history, dsp.took at the moment the last write set the flag
UiIdle == [pc |-> "idle", msg |-> 0, type |-> 0, took |-> 0]

\* init_ports: the Port gets `new AtomState()`; PluginControl::create gives
\* the AtomPortControl another `new AtomState()` of its own
AtomSetup(h) ==
    /\ host = h
    /\ ctl_atom = NewAtomState
    /\ port_atom = NewAtomState
    /\ ui = UiIdle
    /\ dsp = DspIdle
    /\ atom_seq = <<>>
    /\ observed = <<>>
    /\ ui_sent = 0
    /\ served = 0

AtomIdle == AtomSetup("LV2Plugin")

AtomInit == \E h \in Hosts : AtomSetup(h)

\* the AtomState a UI write goes to had both classes shared one object
UiTarget_shared == "port"

\* the AtomState a UI write goes to: AtomPortControl::setValue writes
\* atom_state_, the control's own object; LV2OboeHost::set_atom_message writes
\* ports[port_index].atom_state
UiTarget == IF host = "LV2Plugin" THEN "ctl" ELSE "port"

\* entry of the UI call.  LV2Plugin: setMessageType(t) then setValue(bytes),
\* whose vector assignment starts here.  LV2OboeHost: set_atom_message, whose
\* resize + memcpy starts here.
UiBegin(t) ==
    /\ ui.pc = "idle"
    /\ ui_sent < MaxMsgs
    /\ ui' = [pc |-> "assign", msg |-> ui_sent + 1, type |-> t, took |-> 0]
    /\ ui_sent' = ui_sent + 1
    /\ IF host = "LV2Plugin"
         THEN /\ ctl_atom' = [ctl_atom EXCEPT !.ui_to_dsp_type = t]
              /\ UNCHANGED port_atom
         ELSE UNCHANGED <<ctl_atom, port_atom>>
    /\ UNCHANGED <<host, dsp, atom_seq, observed, served, notAtom>>

\* the payload is in place: atom_state_->ui_to_dsp = data (LV2Plugin), or
\* memcpy done and ui_to_dsp_type = type (LV2OboeHost)
UiAssigned ==
    /\ ui.pc = "assign"
    /\ ui' = [ui EXCEPT !.pc = "flag"]
    /\ IF UiTarget = "ctl"
         THEN /\ ctl_atom' = [ctl_atom EXCEPT !.ui_to_dsp = ui.msg]
              /\ UNCHANGED port_atom
         ELSE /\ port_atom' = [port_atom EXCEPT !.ui_to_dsp = ui.msg,
                                                !.ui_to_dsp_type = ui.type]
              /\ UNCHANGED ctl_atom
    /\ UNCHANGED <<host, dsp, atom_seq, observed, ui_sent, served, notAtom>>

\* ui_to_dsp_pending.store(true, release)
UiSetPending ==
    /\ ui.pc = "flag"
    /\ ui' = [ui EXCEPT !.pc = "idle", !.took = dsp.took]
    /\ IF UiTarget = "ctl"
         THEN /\ ctl_atom' = [ctl_atom EXCEPT !.ui_to_dsp_pending = TRUE]
              /\ UNCHANGED port_atom
         ELSE /\ port_atom' = [port_atom EXCEPT !.ui_to_dsp_pending = TRUE]
              /\ UNCHANGED ctl_atom
    /\ UNCHANGED <<host, dsp, atom_seq, observed, ui_sent, served, notAtom>>

\* process() entry: the guards pass (instance active, buffers given), Step A
\* connects the audio ports
ProcessBegin ==
    /\ dsp.pc = "idle"
    /\ dsp' = [dsp EXCEPT !.pc = "stepB",
                           !.began = IF ui.pc = "idle" THEN ui_sent
                                                       ELSE ui_sent - 1]
    /\ UNCHANGED <<host, ctl_atom, port_atom, ui, atom_seq, observed,
                   ui_sent, served, notAtom>>

\* Step B: if (p.atom_state->ui_to_dsp_pending.exchange(false, acquire))
\*             { p.atom->atom.type = Sequence; p.atom->atom.size = 0; ...
StepB_exchange ==
    /\ dsp.pc = "stepB"
    /\ port_atom' = [port_atom EXCEPT !.ui_to_dsp_pending = FALSE]
    /\ IF port_atom.ui_to_dsp_pending
         THEN /\ dsp' = [dsp EXCEPT !.pc = "wrap", !.took = @ + 1]
              /\ atom_seq' = <<>>
         ELSE /\ dsp' = [dsp EXCEPT !.pc = "run"]
              /\ UNCHANGED atom_seq
    /\ UNCHANGED <<host, ctl_atom, ui, observed, ui_sent, served, notAtom>>

\* what the audio thread reads from the port's ui_to_dsp vector: the vector,
\* unless the UI thread is assigning that same vector right now (a data
\* race: the old bytes, the new bytes, or a mix)
PayloadsReadable ==
    IF ui.pc = "assign" /\ UiTarget = "port"
      THEN {port_atom.ui_to_dsp, ui.msg, Torn}
      ELSE {port_atom.ui_to_dsp}

\* ... ev->time.frames = 0; ev->body.type = ui_to_dsp_type;
\*     memcpy(body, ui_to_dsp.data(), body_size);
\*     lv2_atom_sequence_append_event(p.atom, p.atom_buf_size, ev); }
StepB_wrap ==
    /\ dsp.pc = "wrap"
    /\ \E body \in PayloadsReadable :
          atom_seq' = Append(atom_seq,
                             [frames |-> 0, type |-> port_atom.ui_to_dsp_type,
                              body |-> body])
    /\ dsp' = [dsp EXCEPT !.pc = "run"]
    /\ UNCHANGED <<host, ctl_atom, port_atom, ui, observed, ui_sent, served,
                   notAtom>>

\* Step C: lilv_instance_run: the plugin reads the port's sequence
StepC_run ==
    /\ dsp.pc = "run"
    /\ observed' = observed \o atom_seq
    /\ dsp' = [dsp EXCEPT !.pc = "stepE"]
    /\ UNCHANGED <<host, ctl_atom, port_atom, ui, atom_seq, ui_sent, served,
                   notAtom>>

\* Step E: p.atom->atom.size = 0 for the atom input port; return true
StepE_reset ==
    /\ dsp.pc = "stepE"
    /\ atom_seq' = <<>>
    /\ served' = dsp.began
    /\ dsp' = [dsp EXCEPT !.pc = "idle"]
    /\ UNCHANGED <<host, ctl_atom, port_atom, ui, observed, ui_sent, notAtom>>

NextAtom ==
    \/ \E t \in MsgTypes : UiBegin(t)
    \/ UiAssigned
    \/ UiSetPending
    \/ ProcessBegin
    \/ StepB_exchange
    \/ StepB_wrap
    \/ StepC_run
    \/ StepE_reset

(***************************************************************************)
(* The chain.                                                              *)
(*   jni_bridge.cpp : addPlugin, deletePlugin, setValue on engine->pluginN *)
(*   LV2Plugin.hpp  : process() guards and run, closePlugin                *)
(*   Engine.process (LiveEffectEngine, whose source is not in src/) is     *)
(*   modelled from the specification, sections 4.I and 5.                  *)
(***************************************************************************)
\* the slots are engine->plugin1 .. engine->plugin4
NSlots == 4

Slots == 1..NSlots

\* the identities of the LV2Plugin objects `new` hands out
InstIds == 1..MaxInst

Samples == 0..(SampleMod - 1)

\* the plugin URIs of the catalog, and one the catalog does not hold
Catalog == {"inc", "dbl"}

Uris == Catalog \cup {"unknown"}

\* lilv_instance_run of the plugin on one sample (the plugins stand for any
\* two effects that do not commute)
PluginRun(uri, x) ==
    IF uri = "inc" THEN (x + 1) % SampleMod ELSE (2 * x) % SampleMod

\* every plugin of the catalog has: port 0 audio in, port 1 audio out,
\* port 2 a control input with range [0, 1] and default 0
NumPorts == 3

CtlPort == 2

CtlMin == 0

CtlMax == 1

CtlDefault == 0

\* the values the Control Surface passes: below, inside and above the range
CtlValues == (CtlMin - 1)..(CtlMax + 1)

\* the content of an output buffer Engine.process has not written yet
Unwritten == -1

NoInst == [state |-> "none", uri |-> "", control |-> 0]

AudioIdle == [pc |-> "idle", slot |-> 0, ptr |-> 0, in |-> 0, scratch |-> 0,
              out |-> Unwritten, on |-> FALSE]

\* before: history, the slots as they were when the call was entered
JniIdle == [pc |-> "idle", op |-> "", pos |-> 0, plugin |-> 0, uri |-> "",
            index |-> 0, value |-> 0, ret |-> 0,
            before |-> [s \in 1..NSlots |-> 0]]

\* after AudioEngine.create(): all four slots nullptr
ChainInit ==
    /\ plugin_slot = [s \in Slots |-> 0]
    /\ inst = [i \in InstIds |-> NoInst]
    /\ effect_on = TRUE
    /\ jni = JniIdle
    /\ audio = AudioIdle
    /\ crashed = FALSE
    /\ chain_changed = FALSE

\* the first LV2Plugin object not yet handed out by `new`
FreshInst == CHOOSE i \in InstIds : inst[i].state = "none" /\
                 \A j \in InstIds : j < i => inst[j].state # "none"

HasFresh == \E i \in InstIds : inst[i].state = "none"

\* ---- jni_bridge.cpp: addPlugin ------------------------------------------
\* switch (position) { case n: plugin = engine->pluginN;
\*                             engine->pluginN = nullptr; break;
\*                     default: return -1; }
AddPlugin_take(position, uri) ==
    /\ ~crashed /\ jni.pc = "idle"
    /\ HasFresh
    /\ IF position \in Slots
         THEN /\ jni' = [JniIdle EXCEPT
                            !.pc = IF plugin_slot[position] # 0
                                     THEN "close" ELSE "create",
                            !.op = "addPlugin", !.pos = position,
                            !.before = plugin_slot,
                            !.plugin = plugin_slot[position], !.uri = uri]
              /\ plugin_slot' = [plugin_slot EXCEPT ![position] = 0]
              /\ chain_changed' = (chain_changed \/
                     (audio.pc # "idle" /\ plugin_slot[position] # 0))
         ELSE /\ jni' = [JniIdle EXCEPT !.pc = "ret", !.op = "addPlugin", !.ret = -1,
                                        !.pos = position,
                                        !.before = plugin_slot]
              /\ UNCHANGED <<plugin_slot, chain_changed>>
    /\ UNCHANGED <<inst, effect_on, audio, crashed, notChain>>

\* if (plugin != nullptr) { plugin->closePlugin(); ...
\* closePlugin: stop_worker, deactivate and free the LV2 instance, free the
\* port buffers and controls
AddPlugin_close ==
    /\ ~crashed /\ jni.pc = "close"
    /\ inst' = [inst EXCEPT ![jni.plugin].state = "closed"]
    /\ jni' = [jni EXCEPT !.pc = "free"]
    /\ UNCHANGED <<plugin_slot, effect_on, audio, crashed, chain_changed,
                   notChain>>

\* ... free(plugin); }
AddPlugin_free ==
    /\ ~crashed /\ jni.pc = "free"
    /\ inst' = [inst EXCEPT ![jni.plugin].state = "freed"]
    /\ jni' = [jni EXCEPT !.pc = "create"]
    /\ UNCHANGED <<plugin_slot, effect_on, audio, crashed, chain_changed,
                   notChain>>

\* plugin = new LV2Plugin(world, uri, sampleRate, 4096);
\* if (!plugin->initialize()) return -1;  else plugin->start();
\* initialize() fails when the URI names no plugin of the world
AddPlugin_create ==
    /\ ~crashed /\ jni.pc = "create"
    /\ IF jni.uri \in Catalog
         THEN /\ inst' = [inst EXCEPT ![FreshInst] =
                            [state |-> "active", uri |-> jni.uri,
                             control |-> CtlDefault]]
              /\ jni' = [jni EXCEPT !.pc = "install", !.plugin = FreshInst]
         ELSE /\ inst' = [inst EXCEPT ![FreshInst] =
                            [state |-> "failed", uri |-> jni.uri,
                             control |-> 0]]
              /\ jni' = [JniIdle EXCEPT !.pc = "ret", !.op = "addPlugin", !.ret = -1,
                                        !.pos = jni.pos,
                                        !.before = jni.before]
    /\ UNCHANGED <<plugin_slot, effect_on, audio, crashed, chain_changed,
                   notChain>>

\* switch (position) { case n: engine->pluginN = plugin; break; }  return 0;
AddPlugin_install ==
    /\ ~crashed /\ jni.pc = "install"
    /\ plugin_slot' = [plugin_slot EXCEPT ![jni.pos] = jni.plugin]
    /\ chain_changed' = (audio.pc # "idle")
    /\ jni' = [JniIdle EXCEPT !.pc = "ret", !.op = "addPlugin", !.pos = jni.pos]
    /\ UNCHANGED <<inst, effect_on, audio, crashed, notChain>>

\* ---- jni_bridge.cpp: deletePlugin ---------------------------------------
\* switch (plugin) { case n: if (engine->pluginN) {
\*                              engine->pluginN = nullptr; ...
\* (no default case: another number, or an empty slot, does nothing)
DeletePlugin_null(position) ==
    /\ ~crashed /\ jni.pc = "idle"
    /\ IF position \in Slots /\ plugin_slot[position] # 0
         THEN /\ plugin_slot' = [plugin_slot EXCEPT ![position] = 0]
              /\ chain_changed' = (audio.pc # "idle")
              /\ jni' = [JniIdle EXCEPT !.pc = "deref", !.op = "deletePlugin",
                                        !.pos = position,
                                        !.before = plugin_slot]
         ELSE /\ jni' = [JniIdle EXCEPT !.pc = "ret", !.op = "deletePlugin",
                                        !.pos = position,
                                        !.before = plugin_slot]
              /\ UNCHANGED <<plugin_slot, chain_changed>>
    /\ UNCHANGED <<inst, effect_on, audio, crashed, notChain>>

\* ... engine->pluginN->closePlugin(); free(engine->pluginN); }
\* the pointer read back is the nullptr just stored: closePlugin() runs with
\* this == nullptr, which is undefined: the process dies on the first member
\* access, or the call has no effect.  The instance that was in the slot is
\* reached by neither closePlugin nor free.
DeletePlugin_deref ==
    /\ ~crashed /\ jni.pc = "deref"
    /\ \E dies \in BOOLEAN : crashed' = dies
    /\ jni' = [jni EXCEPT !.pc = "ret"]
    /\ UNCHANGED <<plugin_slot, inst, effect_on, audio, chain_changed,
                   notChain>>

\* the JNI call returns to its Java caller
JniReturn ==
    /\ ~crashed /\ jni.pc = "ret"
    /\ jni' = JniIdle
    /\ UNCHANGED <<plugin_slot, inst, effect_on, audio, crashed, chain_changed,
                   notChain>>

\* ---- jni_bridge.cpp: setValue -------------------------------------------
\* the value stored had setValue gone through a clamping setter
StoredControl_clamped(value) ==
    IF value < CtlMin THEN CtlMin ELSE IF CtlMax < value THEN CtlMax ELSE value

\* plugin->ports_.at(index).control = value;
StoredControl(value) == value

\* ---- jni_bridge.cpp: test ------------------------------------------------
\* lv2Plugin = new LV2Plugin(world, "<uri>", 48000., 4096);
\* lv2Plugin->initialize();          (the result is not looked at)
\* lv2Plugin->start();
\* engine->plugin1 = lv2Plugin;      (what the slot held is not closed)
\* init_ok: whether initialize() succeeded (the plugin was found in the
\* world; instantiation may still fail)
JniTest(uri, init_ok) ==
    /\ ~crashed /\ jni.pc = "idle"
    /\ HasFresh
    /\ inst' = [inst EXCEPT ![FreshInst] =
                  [state |-> IF init_ok THEN "active" ELSE "failed",
                   uri |-> uri, control |-> CtlDefault]]
    /\ plugin_slot' = [plugin_slot EXCEPT ![1] = FreshInst]
    /\ chain_changed' = (audio.pc # "idle")
    /\ jni' = [JniIdle EXCEPT !.pc = "ret", !.op = "test", !.pos = 1,
                              !.plugin = FreshInst, !.before = plugin_slot]
    /\ UNCHANGED <<effect_on, audio, crashed, notChain>>

\* ---- jni_bridge.cpp: setValue --------------------------------------------
\* switch (p) { case n: plugin = engine->pluginN; break; default: return; }
\* plugin->ports_.at(index).control = value;
\* an empty slot is a null dereference, an index past the ports throws
\* std::out_of_range out of the JNI call: both end the process
JniSetValue(p, index, value) ==
    /\ ~crashed /\ jni.pc = "idle"
    /\ IF p \notin Slots
         THEN UNCHANGED <<inst, crashed>>
         ELSE IF plugin_slot[p] = 0 \/ index >= NumPorts
           THEN /\ crashed' = TRUE
                /\ UNCHANGED inst
           ELSE /\ inst' = [inst EXCEPT ![plugin_slot[p]].control =
                              \* (the control field of an audio port is
                              \* written too, and never read)
                              IF index = CtlPort THEN StoredControl(value) ELSE @]
                /\ UNCHANGED crashed
    /\ jni' = [JniIdle EXCEPT !.pc = "ret", !.op = "setValue", !.pos = p, !.index = index,
                              !.value = value,
                              !.plugin = IF p \in Slots THEN plugin_slot[p]
                                                        ELSE 0]
    /\ UNCHANGED <<plugin_slot, effect_on, audio, chain_changed, notChain>>

\* ---- setEffectOn (specification 6) --------------------------------------
SetEffectOn(on) ==
    /\ ~crashed /\ jni.pc = "idle"
    /\ effect_on' = on
    /\ UNCHANGED <<plugin_slot, inst, jni, audio, crashed, chain_changed,
                   notChain>>

\* ---- Engine.process (specification 4.I) ---------------------------------
\* the slot the walk visits after slot s, had the walk gone downwards
NextSlot_descending(s) == IF s = 0 THEN NSlots ELSE IF s = 1 THEN 0 ELSE s - 1

\* "walk slots in order": the slot visited after slot s (0 before the first
\* and after the last)
NextSlot(s) == IF s = NSlots THEN 0 ELSE s + 1

\* the output for effects switched off, had the engine muted instead
Bypass_mute(x) == 0

\* "if effects are disabled, copy input to output"
Bypass(x) == x

\* the audio thread moves on from the slot it is at
AudioAdvance(a, scratch) ==
    IF NextSlot(a.slot) = 0
      THEN [a EXCEPT !.pc = "done", !.slot = 0, !.ptr = 0,
                     !.scratch = scratch, !.out = scratch]
      ELSE [a EXCEPT !.pc = "load", !.slot = NextSlot(a.slot), !.ptr = 0,
                     !.scratch = scratch]

\* process(in, out, frames): effects off copies the input to the output;
\* otherwise the input goes to the scratch buffer and the walk starts
AudioBegin(x) ==
    /\ ~crashed /\ audio.pc = "idle"
    /\ chain_changed' = FALSE
    /\ IF effect_on
         THEN audio' = [pc |-> "load", slot |-> NextSlot(0), ptr |-> 0,
                        in |-> x, scratch |-> x, out |-> Unwritten,
                        on |-> TRUE]
         ELSE audio' = [pc |-> "done", slot |-> 0, ptr |-> 0,
                        in |-> x, scratch |-> x, out |-> Bypass(x),
                        on |-> FALSE]
    /\ UNCHANGED <<plugin_slot, inst, effect_on, jni, crashed, notChain>>

\* process returns to the audio callback, which hands the block on
AudioReturn ==
    /\ ~crashed /\ audio.pc = "done"
    /\ audio' = AudioIdle
    /\ chain_changed' = FALSE
    /\ UNCHANGED <<plugin_slot, inst, effect_on, jni, crashed, notChain>>

\* the audio thread loads the slot's pointer (acquire), once per call;
\* "if any instance is missing, skip it"
AudioLoad ==
    /\ ~crashed /\ audio.pc = "load"
    /\ IF plugin_slot[audio.slot] = 0
         THEN audio' = AudioAdvance(audio, audio.scratch)
         ELSE audio' = [audio EXCEPT !.pc = "enter",
                                     !.ptr = plugin_slot[audio.slot]]
    /\ UNCHANGED <<plugin_slot, inst, effect_on, jni, crashed, chain_changed,
                   notChain>>

\* LV2Plugin::process entry:
\*   if (shutdown_.load(acquire) || !instance_) return false;
\* a closed instance has instance_ == nullptr; the members of a freed
\* LV2Plugin are whatever the allocator left there
AudioEnter ==
    /\ ~crashed /\ audio.pc = "enter"
    /\ LET st == inst[audio.ptr].state
       IN \/ /\ st = "active"
             /\ audio' = [audio EXCEPT !.pc = "run"]
             /\ UNCHANGED crashed
          \/ /\ st = "closed"
             /\ audio' = AudioAdvance(audio, audio.scratch)
             /\ UNCHANGED crashed
          \/ /\ st = "freed"
             /\ \/ /\ audio' = AudioAdvance(audio, audio.scratch)
                   /\ UNCHANGED crashed
                \/ /\ audio' = [audio EXCEPT !.pc = "run"]
                   /\ UNCHANGED crashed
                \/ /\ crashed' = TRUE
                   /\ UNCHANGED audio
    /\ UNCHANGED <<plugin_slot, inst, effect_on, jni, chain_changed, notChain>>

\* LV2Plugin::process Steps A and C: connect the input buffer and the output
\* buffer, lilv_instance_run.  Running an LV2 instance that closePlugin has
\* freed is undefined: any output, or the process dies.
AudioRun ==
    /\ ~crashed /\ audio.pc = "run"
    /\ IF inst[audio.ptr].state = "active"
         THEN /\ audio' = AudioAdvance(audio,
                              PluginRun(inst[audio.ptr].uri, audio.scratch))
              /\ UNCHANGED crashed
         ELSE \/ /\ \E y \in Samples : audio' = AudioAdvance(audio, y)
                 /\ UNCHANGED crashed
              \/ /\ crashed' = TRUE
                 /\ UNCHANGED audio
    /\ UNCHANGED <<plugin_slot, inst, effect_on, jni, chain_changed, notChain>>

\* the UI thread's calls that succeed, against the audio thread (the calls
\* that fail are in NextCtl)
NextChain ==
    \/ \E position \in Slots, uri \in Catalog : AddPlugin_take(position, uri)
    \/ AddPlugin_close
    \/ AddPlugin_free
    \/ AddPlugin_create
    \/ AddPlugin_install
    \/ \E position \in Slots : DeletePlugin_null(position)
    \/ DeletePlugin_deref
    \/ JniReturn
    \/ \E on \in BOOLEAN : SetEffectOn(on)
    \/ \E x \in Samples : AudioBegin(x)
    \/ AudioLoad
    \/ AudioEnter
    \/ AudioRun
    \/ AudioReturn

(***************************************************************************)
(* ControlPortFloat (LV2Plugin.hpp).  Floats are modelled as integers; NaN *)
(* has no counterpart.                                                     *)
(***************************************************************************)
\* a range bound the plugin's description does not declare
Absent == -9

\* the bounds and defaults a plugin description declares
RangeVals == 0..MaxRange

\* the floats the caller passes: below, inside and above every range
CpfValues == -1..(MaxRange + 1)

\* the alternatives of std::variant<float, bool, std::vector<uint8_t>>
VariantKinds == {"float", "bool", "bytes"}

\* ControlPortFloat::ControlPortFloat: the members start as 0, 0, 0, 1 and
\* take the declared minimum, maximum and default where lilv_port_get_range
\* returns one; value_ = defvalue_
ControlPortFloat(pmin, pmax, pdflt) ==
    LET d == IF pdflt # Absent THEN pdflt ELSE 0
    IN [value_ |-> d, defvalue_ |-> d,
        minval_ |-> IF pmin # Absent THEN pmin ELSE 0,
        maxval_ |-> IF pmax # Absent THEN pmax ELSE 1]

NoSet == [kind |-> "none", v |-> 0, before |-> 0, got |-> Absent]

CpfSetup(pmin, pmax, pdflt) ==
    /\ cpf = ControlPortFloat(pmin, pmax, pdflt)
    /\ cpf_last = NoSet

CpfIdle == CpfSetup(0, 1, 0)

CpfInit ==
    \E pmin \in RangeVals \cup {Absent}, pmax \in RangeVals \cup {Absent},
       pdflt \in RangeVals \cup {Absent} : CpfSetup(pmin, pmax, pdflt)

\* setValue storing the float as it comes
StdClamp_none(v, lo, hi) == v

\* std::clamp(v, lo, hi) for lo <= hi:
\*   (v < lo) ? lo : (hi < v) ? hi : v
StdClamp(v, lo, hi) == IF v < lo THEN lo ELSE IF hi < v THEN hi ELSE v

\* what std::clamp can return: its behaviour is undefined when hi < lo
ClampResults(v, lo, hi) ==
    IF lo <= hi THEN {StdClamp(v, lo, hi)} ELSE {lo, hi, v}

\* void setValue(const std::variant<...>& val):
\*   try { float fval = std::get<float>(val);
\*         value_ = std::clamp(fval, minval_, maxval_); }
\*   catch (const std::bad_variant_access&) { /* ignore */ }
CpfSetValue(kind, v) ==
    /\ IF kind = "float"
         THEN \E r \in ClampResults(v, cpf.minval_, cpf.maxval_) :
                 cpf' = [cpf EXCEPT !.value_ = r]
         ELSE UNCHANGED cpf
    /\ cpf_last' = [kind |-> kind, v |-> v, before |-> cpf.value_,
                    got |-> Absent]
    /\ UNCHANGED notCpf

\* getValue() const { return value_; }
CpfGetValue ==
    /\ cpf_last.got = Absent
    /\ cpf_last' = [cpf_last EXCEPT !.got = cpf.value_]
    /\ UNCHANGED <<cpf, notCpf>>

\* reset() { value_ = defvalue_; }
CpfReset ==
    /\ cpf' = [cpf EXCEPT !.value_ = cpf.defvalue_]
    /\ cpf_last' = NoSet
    /\ UNCHANGED notCpf

NextCpf ==
    \/ \E kind \in VariantKinds, v \in CpfValues : CpfSetValue(kind, v)
    \/ CpfGetValue
    \/ CpfReset

(***************************************************************************)
(* The URID registry (LV2Plugin.hpp: urid_map_, urid_unmap_, map_uri,      *)
(* unmap_uri).  Every LV2Plugin has its own pair of maps and hands its     *)
(* plugin a LV2_URID_Map whose handle is that LV2Plugin.                   *)
(***************************************************************************)
\* two LV2Plugin objects hosted in the chain
Registries == {1, 2}

\* URI strings
StrOf(k) == <<"uri", k>>

Strs == {StrOf(k) : k \in 1..MaxUris}

\* what unmap_uri returns for an id it does not know (nullptr)
NullStr == <<>>

\* the URIDs a registry can hand out, and some it never has
Urids == 0..(MaxUris + 1)

\* init_urids(), called by initialize(): the host maps its own URIs first,
\* in a fixed order (one stands for the sixteen)
HostStrs == {StrOf(1)}

\* the id map_uri gives a string it has not seen, had it been a constant
NewUrid_same(size) == 1

\* LV2_URID id = self->urid_map_.size() + 1;
NewUrid(size) == size + 1

\* urid_map_.size()
UridSize(m) == Cardinality({s \in Strs : m[s] # 0})

NoUnmap == [reg |-> 0, urid |-> 0, ret |-> NullStr]

\* a registry after LV2Plugin::initialize()
UridSetup ==
    /\ urid_map = [r \in Registries |->
                     [s \in Strs |-> IF s \in HostStrs THEN 1 ELSE 0]]
    /\ urid_unmap = [r \in Registries |->
                     [u \in Urids |-> IF u = 1 THEN StrOf(1) ELSE NullStr]]
    /\ urid_issued = {}
    /\ urid_last = NoUnmap

UridIdle == UridSetup

UridInit == UridSetup

\* static LV2_URID map_uri(LV2_URID_Map_Handle h, const char* uri):
\*   it = urid_map_.find(uri);  if (it != end) return it->second;
\*   id = urid_map_.size() + 1; urid_map_[uri] = id; urid_unmap_[id] = uri;
\*   return id;
MapUri(r, s) ==
    /\ LET m == urid_map[r]
           id == IF m[s] # 0 THEN m[s] ELSE NewUrid(UridSize(m))
       IN /\ urid_map' = [urid_map EXCEPT ![r][s] = id]
          /\ urid_unmap' = IF m[s] # 0 THEN urid_unmap
                           ELSE [urid_unmap EXCEPT ![r][id] = s]
          /\ urid_issued' = urid_issued \cup {<<r, s, id>>}
    /\ urid_last' = NoUnmap
    /\ UNCHANGED notUrid

\* static const char* unmap_uri(LV2_URID_Unmap_Handle h, LV2_URID urid):
\*   it = urid_unmap_.find(urid);
\*   if (it == end) return nullptr;  return it->second.c_str();
UnmapUri(r, u) ==
    /\ urid_last' = [reg |-> r, urid |-> u, ret |-> urid_unmap[r][u]]
    /\ UNCHANGED <<urid_map, urid_unmap, urid_issued, notUrid>>

NextUrid ==
    \/ \E r \in Registries, s \in Strs : MapUri(r, s)
    \/ \E r \in Registries, u \in Urids : UnmapUri(r, u)

(***************************************************************************)
(* The worker (LV2Plugin.hpp and LV2OboeHost.hpp: host_schedule_work,      *)
(* worker_thread_func).  The plugin calls schedule_work from run() on the  *)
(* audio thread; the worker thread drains the request ring.  Each call of  *)
(* a ring function is one step here: the ring's own interleavings are      *)
(* those of SpecRb.                                                        *)
(***************************************************************************)
\* sizeof(uint32_t)
HdrLen == 4

\* the capacity of the request ring (8192 in the code), a power of two that
\* holds one record of the largest size and the header of another
WorkRingSize == 2^(RbExp + 2)

\* the payload sizes the plugin passes to schedule_work
WorkSizes == 0..MaxWork

WORKER_SUCCESS == "LV2_WORKER_SUCCESS"

WORKER_ERR_NO_SPACE == "LV2_WORKER_ERR_NO_SPACE"

\* lv2_ringbuffer_read_space
RingReadSpace(rb) == (rb.write_ptr - rb.read_ptr) % SIZE_MOD

\* lv2_ringbuffer_write_space
RingWriteSpace(rb) == (WorkRingSize - RingReadSpace(rb)) % SIZE_MOD

\* lv2_ringbuffer_write(rb, data, Len(data)): the ring afterwards
RingWrite(rb, data) ==
    LET cnt == ClampCnt(Len(data), RingWriteSpace(rb))
        w == rb.write_ptr
    IN [rb EXCEPT
          !.buf = [c \in 0..(WorkRingSize - 1) |->
                     IF \E i \in 0..(cnt - 1) : (w + i) % WorkRingSize = c
                       THEN data[((c - w) % WorkRingSize) + 1]
                       ELSE rb.buf[c]],
          !.write_ptr = (w + cnt) % SIZE_MOD]

\* lv2_ringbuffer_peek(rb, dst, cnt): the bytes copied to dst
RingPeek(rb, cnt) ==
    LET n == ClampCnt(cnt, RingReadSpace(rb))
    IN [k \in 1..n |-> rb.buf[(rb.read_ptr + k - 1) % WorkRingSize]]

\* lv2_ringbuffer_read(rb, dst, cnt): the ring afterwards
RingRead(rb, cnt) ==
    [rb EXCEPT !.read_ptr =
        (rb.read_ptr + ClampCnt(cnt, RingReadSpace(rb))) % SIZE_MOD]

\* the four bytes of a uint32_t in memory (little-endian)
U32Bytes(n) == <<n % 256, (n \div 256) % 256, (n \div 65536) % 256,
                 (n \div 16777216) % 256>>

\* the uint32_t read from up to four bytes of memory; bytes not written keep
\* what the variable held (0 for the model)
U32Of(b) ==
    LET at(k) == IF k <= Len(b) THEN b[k] ELSE 0
    IN at(1) + 256 * at(2) + 65536 * at(3) + 16777216 * at(4)

\* the payload of the n-th call of schedule_work: size distinct bytes
WorkData(n, size) == [k \in 1..size |-> 16 * n + k]

\* the test of schedule_work, had it been left out
SchedFits_always(space, total) == TRUE

\* if (lv2_ringbuffer_write_space(w->requests) < total) return ERR_NO_SPACE;
SchedFits(space, total) == ~(space < total)

\* the worker, had it taken a record as soon as its size was there
WkComplete_always(space, size) == TRUE

\* if (read_space(requests) < sizeof(uint32_t) + size) continue;
WkComplete(space, size) == ~(space < HdrLen + size)

SchedIdle == [pc |-> "idle", size |-> 0, data |-> <<>>, ret |-> "",
              space |-> 0, w0 |-> 0]

WkIdle == [pc |-> "idle", size |-> 0]

\* init_instance: requests = lv2_ringbuffer_create(8192); running = true
WorkSetup ==
    /\ req = [buf |-> [c \in 0..(WorkRingSize - 1) |-> Garbage],
              write_ptr |-> 0, read_ptr |-> 0]
    /\ sched = SchedIdle
    /\ wk = WkIdle
    /\ work_pending = FALSE
    /\ scheduled = <<>>
    /\ worked = <<>>
    /\ sched_calls = 0

WorkIdle == WorkSetup

WorkInit == WorkSetup

\* host_schedule_work(handle, size, data):
\*   const size_t total = sizeof(uint32_t) + size;
\*   if (write_space(requests) < total) return LV2_WORKER_ERR_NO_SPACE;
SchedBegin(size) ==
    /\ sched.pc = "idle"
    /\ sched_calls < MaxRecs
    /\ sched_calls' = sched_calls + 1
    /\ LET space == RingWriteSpace(req)
           total == HdrLen + size
       IN sched' = [pc |-> IF SchedFits(space, total) THEN "hdr" ELSE "ret",
                    size |-> size,
                    data |-> WorkData(sched_calls + 1, size),
                    ret |-> IF SchedFits(space, total)
                              THEN "" ELSE WORKER_ERR_NO_SPACE,
                    space |-> space, w0 |-> req.write_ptr]
    /\ UNCHANGED <<req, wk, work_pending, scheduled, worked, notWork>>

\*   lv2_ringbuffer_write(requests, (const char*)&size, sizeof(uint32_t));
SchedHdr ==
    /\ sched.pc = "hdr"
    /\ req' = RingWrite(req, U32Bytes(sched.size))
    /\ sched' = [sched EXCEPT !.pc = "data"]
    /\ UNCHANGED <<wk, work_pending, scheduled, worked, sched_calls, notWork>>

\*   lv2_ringbuffer_write(requests, (const char*)data, size);
SchedData ==
    /\ sched.pc = "data"
    /\ req' = RingWrite(req, sched.data)
    /\ sched' = [sched EXCEPT !.pc = "pending"]
    /\ UNCHANGED <<wk, work_pending, scheduled, worked, sched_calls, notWork>>

\*   work_pending.store(true, release);  return LV2_WORKER_SUCCESS;
SchedPending ==
    /\ sched.pc = "pending"
    /\ work_pending' = TRUE
    /\ scheduled' = Append(scheduled, sched.data)
    /\ sched' = [sched EXCEPT !.pc = "ret", !.ret = WORKER_SUCCESS]
    /\ UNCHANGED <<req, wk, worked, sched_calls, notWork>>

\* schedule_work returns to the plugin
SchedReturn ==
    /\ sched.pc = "ret"
    /\ sched' = SchedIdle
    /\ UNCHANGED <<req, wk, work_pending, scheduled, worked, sched_calls,
                   notWork>>

\* worker_thread_func, one turn of the loop:
\*   if (read_space(requests) < sizeof(uint32_t)) { sleep 1 ms; continue; }
\*   uint32_t size;  lv2_ringbuffer_peek(requests, &size, sizeof(uint32_t));
WkPeek ==
    /\ wk.pc = "idle"
    /\ ~(RingReadSpace(req) < HdrLen)
    /\ wk' = [pc |-> "check", size |-> U32Of(RingPeek(req, HdrLen))]
    /\ UNCHANGED <<req, sched, work_pending, scheduled, worked, sched_calls,
                   notWork>>

\*   if (read_space(requests) < sizeof(uint32_t) + size) continue;
\*   lv2_ringbuffer_read(requests, &size, sizeof(uint32_t));
WkCheck ==
    /\ wk.pc = "check"
    /\ IF ~WkComplete(RingReadSpace(req), wk.size)
         THEN /\ wk' = WkIdle
              /\ UNCHANGED req
         ELSE /\ wk' = [pc |-> "data",
                        size |-> U32Of(RingPeek(req, HdrLen))]
              /\ req' = RingRead(req, HdrLen)
    /\ UNCHANGED <<sched, work_pending, scheduled, worked, sched_calls,
                   notWork>>

\*   std::vector<uint8_t> buf(size);
\*   lv2_ringbuffer_read(requests, buf.data(), size);
\*   iface->work(dsp_handle, host_respond, w, size, buf.data());
\* (the bytes of buf the read does not fill stay 0)
WkWork ==
    /\ wk.pc = "data"
    /\ LET got == RingPeek(req, wk.size)
       IN worked' = Append(worked,
                      [k \in 1..wk.size |-> IF k <= Len(got) THEN got[k] ELSE 0])
    /\ req' = RingRead(req, wk.size)
    /\ wk' = WkIdle
    /\ UNCHANGED <<sched, work_pending, scheduled, sched_calls, notWork>>

NextWork ==
    \/ \E size \in WorkSizes : SchedBegin(size)
    \/ SchedHdr
    \/ SchedData
    \/ SchedPending
    \/ SchedReturn
    \/ WkPeek
    \/ WkCheck
    \/ WkWork

(***************************************************************************)
(* DSP -> UI: the export of an atom output port to its ring                *)
(* (LV2Plugin::process Step E, LV2Plugin::readAtomMessage).  Each call of  *)
(* a ring function is one step.                                            *)
(***************************************************************************)
\* sizeof(LV2_Atom): uint32_t size, uint32_t type
AtomHdrLen == 8

\* the capacity of AtomState::dsp_to_ui (16384 in the code)
EvtRingSize == 2^(RbExp + 4)

\* the body sizes of the events the plugin emits
BodySizes == 0..MaxBody

\* the buffer sizes the UI passes to readAtomMessage
UiBufSizes == {AtomHdrLen - 1, AtomHdrLen + 1, AtomHdrLen + MaxBody}

\* the ring functions on the dsp_to_ui ring
EvtReadSpace(rb) == (rb.write_ptr - rb.read_ptr) % SIZE_MOD

EvtWriteSpace(rb) == (EvtRingSize - EvtReadSpace(rb)) % SIZE_MOD

EvtWrite(rb, data) ==
    LET cnt == ClampCnt(Len(data), EvtWriteSpace(rb))
        w == rb.write_ptr
    IN [rb EXCEPT
          !.buf = [c \in 0..(EvtRingSize - 1) |->
                     IF \E i \in 0..(cnt - 1) : (w + i) % EvtRingSize = c
                       THEN data[((c - w) % EvtRingSize) + 1]
                       ELSE rb.buf[c]],
          !.write_ptr = (w + cnt) % SIZE_MOD]

EvtPeek(rb, cnt) ==
    LET n == ClampCnt(cnt, EvtReadSpace(rb))
    IN [k \in 1..n |-> rb.buf[(rb.read_ptr + k - 1) % EvtRingSize]]

\* lv2_ringbuffer_read, had it left the read index where it was (a peek)
EvtRead_peek(rb, cnt) == rb

EvtRead(rb, cnt) ==
    [rb EXCEPT !.read_ptr =
        (rb.read_ptr + ClampCnt(cnt, EvtReadSpace(rb))) % SIZE_MOD]

\* the n-th event the plugin emits: its type is n, its body size distinct
\* bytes
Event(n, size) == [size |-> size, type |-> n,
                   body |-> [k \in 1..size |-> 16 * n + k]]

\* (const char*)&ev->body, total: the LV2_Atom header and the body behind it
AtomBytes(ev) == U32Bytes(ev.size) \o U32Bytes(ev.type) \o ev.body

\* Step E, had it written every event whatever the space
EvtFits_always(rb, total) == TRUE

\* if (lv2_ringbuffer_write_space(p.atom_state->dsp_to_ui) >= total)
EvtFits(rb, total) == EvtWriteSpace(rb) >= total

StepEIdle == [pc |-> "idle", i |-> 0]

\* prev: history, the type of the atom the last successful read before this
\* call returned (0: none)
NoRead == [ret |-> 0, out |-> <<>>, prev |-> 0]

\* the type field of the atom a call returned, 0 when it returned none
ReadType(r) == IF r.ret = 0 THEN r.prev ELSE U32Of(SubSeq(r.out, 5, 8))

\* AtomState(): dsp_to_ui = lv2_ringbuffer_create(ringbuffer_size)
EvtSetup ==
    /\ evt_ring = [buf |-> [c \in 0..(EvtRingSize - 1) |-> Garbage],
                   write_ptr |-> 0, read_ptr |-> 0]
    /\ out_seq = <<>>
    /\ evt = StepEIdle
    /\ evt_emitted = 0
    /\ evt_dropped = 0
    /\ ui_read = NoRead

EvtIdle == EvtSetup

EvtInit == EvtSetup

\* Step C, lilv_instance_run: the plugin appends events to the sequence of
\* its atom output port
EvtRun ==
    /\ evt.pc = "idle"
    /\ \E n \in 0..MaxPerCycle : \E sizes \in [1..n -> BodySizes] :
          /\ evt_emitted + n <= MaxEmit
          /\ out_seq' = [k \in 1..n |-> Event(evt_emitted + k, sizes[k])]
          /\ evt_emitted' = evt_emitted + n
    /\ evt' = [pc |-> "export", i |-> 1]
    /\ UNCHANGED <<evt_ring, evt_dropped, ui_read, notEvt>>

\* Step E, one turn of LV2_ATOM_SEQUENCE_FOREACH(seq, ev):
\*   if (ev->body.size == 0) break;
\*   const uint32_t total = sizeof(LV2_Atom) + ev->body.size;
\*   if (write_space(dsp_to_ui) >= total) write(dsp_to_ui, &ev->body, total);
\* an event that does not fit is passed over
EvtExport ==
    /\ evt.pc = "export"
    /\ IF evt.i > Len(out_seq) \/ out_seq[evt.i].size = 0
         THEN /\ evt' = [evt EXCEPT !.pc = "reset"]
              /\ UNCHANGED <<evt_ring, evt_dropped>>
         ELSE LET ev == out_seq[evt.i]
                  total == AtomHdrLen + ev.size
              IN /\ evt' = [evt EXCEPT !.i = evt.i + 1]
                 /\ IF EvtFits(evt_ring, total)
                      THEN /\ evt_ring' = EvtWrite(evt_ring, AtomBytes(ev))
                           /\ UNCHANGED evt_dropped
                      ELSE /\ evt_dropped' = evt_dropped + 1
                           /\ UNCHANGED evt_ring
    /\ UNCHANGED <<out_seq, evt_emitted, ui_read, notEvt>>

\* Step E: p.atom->atom.type = 0; p.atom->atom.size = required_atom_size_;
EvtReset ==
    /\ evt.pc = "reset"
    /\ out_seq' = <<>>
    /\ evt' = StepEIdle
    /\ UNCHANGED <<evt_ring, evt_emitted, evt_dropped, ui_read, notEvt>>

\* readAtomMessage(rb, outBuffer, maxSize):
\*   if (maxSize < sizeof(LV2_Atom)) return 0;
\*   if (read_space(rb) < sizeof(LV2_Atom)) return 0;
\*   peek(rb, &atom_header, sizeof(LV2_Atom));
\*   total = sizeof(LV2_Atom) + atom_header.size;
\*   if (total > maxSize || read_space(rb) < total) return 0;
\*   read(rb, outBuffer, total);  return total;
\* (the DSP only adds to the ring, so the tests still hold at the read)
ReadAtomMessage(maxSize) ==
    /\ IF maxSize < AtomHdrLen \/ EvtReadSpace(evt_ring) < AtomHdrLen
         THEN /\ ui_read' = [NoRead EXCEPT !.prev = ReadType(ui_read)]
              /\ UNCHANGED evt_ring
         ELSE LET total == AtomHdrLen +
                           U32Of(SubSeq(EvtPeek(evt_ring, AtomHdrLen), 1, 4))
              IN IF total > maxSize \/ EvtReadSpace(evt_ring) < total
                   THEN /\ ui_read' = [NoRead EXCEPT !.prev = ReadType(ui_read)]
                        /\ UNCHANGED evt_ring
                   ELSE /\ ui_read' = [ret |-> total,
                                       out |-> EvtPeek(evt_ring, total),
                                       prev |-> ReadType(ui_read)]
                        /\ evt_ring' = EvtRead(evt_ring, total)
    /\ UNCHANGED <<out_seq, evt, evt_emitted, evt_dropped, notEvt>>

NextEvt ==
    \/ EvtRun
    \/ EvtExport
    \/ EvtReset
    \/ \E maxSize \in UiBufSizes : ReadAtomMessage(maxSize)

(***************************************************************************)
(* One LV2Plugin's lifecycle against its process() (LV2Plugin.hpp:         *)
(* initialize, start, stop, closePlugin on the UI thread; process on the   *)
(* audio thread).                                                          *)
(***************************************************************************)
\* the values of numFrames: negative, zero, positive
FrameCounts == {-1, 0, 1}

\* the guards of process(), had the shutdown flag been left out
Refused_noshutdown(sh, inst_ok, in_ok, out_ok, frames) ==
    ~inst_ok \/ ~in_ok \/ ~out_ok \/ frames <= 0

\* if (shutdown_.load(acquire) || !instance_) return false;
\* if (!inputBuffer || !outputBuffer || numFrames <= 0) return false;
Refused(sh, inst_ok, in_ok, out_ok, frames) ==
    sh \/ ~inst_ok \/ ~in_ok \/ ~out_ok \/ frames <= 0

\* sh0, inst0, pending0: history, the members as the guards found them
ProcIdle == [pc |-> "idle", in_ok |-> TRUE, out_ok |-> TRUE, frames |-> 1,
             sh0 |-> FALSE, inst0 |-> FALSE, pending0 |-> FALSE,
             steps |-> {}, ret |-> FALSE, run_active |-> TRUE]

\* LV2Plugin(world, uri, ...): instance_(nullptr), shutdown_(false)
LifeSetup ==
    /\ lv2 = [shutdown_ |-> FALSE, instance_ |-> FALSE, pending |-> FALSE,
              active |-> FALSE, misuse |-> FALSE]
    /\ proc = ProcIdle

LifeIdle == LifeSetup

LifeInit == LifeSetup

\* initialize(): init_instance() instantiates and, at its end, calls
\* lilv_instance_activate(instance_); or fails
\* active: the instance is between an activate and a deactivate call;
\* misuse: history, activate was called on an active instance or deactivate
\* on an inactive one
Initialize(ok) ==
    /\ ~lv2.instance_
    /\ lv2' = [lv2 EXCEPT !.instance_ = ok, !.active = ok]
    /\ UNCHANGED <<proc, notLife>>

\* start(): shutdown_.store(false, release);
\*          if (instance_) lilv_instance_activate(instance_);
Start ==
    /\ lv2' = [lv2 EXCEPT !.shutdown_ = FALSE,
                          !.active = IF lv2.instance_ THEN TRUE ELSE @,
                          !.misuse = @ \/ (lv2.instance_ /\ lv2.active)]
    /\ UNCHANGED <<proc, notLife>>

\* stop(): shutdown_.store(true, release);
\*         if (instance_) lilv_instance_deactivate(instance_);
Stop ==
    /\ lv2' = [lv2 EXCEPT !.shutdown_ = TRUE,
                          !.active = IF lv2.instance_ THEN FALSE ELSE @,
                          !.misuse = @ \/ (lv2.instance_ /\ ~lv2.active)]
    /\ UNCHANGED <<proc, notLife>>

\* closePlugin(): if (instance_) { lilv_instance_deactivate(instance_);
\*                  lilv_instance_free(instance_); instance_ = nullptr; }
\* (not while process() is past its guards: that is the chain's affair)
ClosePlugin ==
    /\ lv2.instance_
    /\ proc.pc \in {"idle", "ret"}
    /\ lv2' = [lv2 EXCEPT !.instance_ = FALSE, !.pending = FALSE,
                          !.active = FALSE, !.misuse = @ \/ ~lv2.active]
    /\ UNCHANGED <<proc, notLife>>

\* the UI thread leaves a message for an atom input port:
\* ui_to_dsp_pending.store(true, release)
SetPending ==
    /\ lv2.instance_
    /\ lv2' = [lv2 EXCEPT !.pending = TRUE]
    /\ UNCHANGED <<proc, notLife>>

\* process(inputBuffer, outputBuffer, numFrames): the two guards
ProcGuards(in_ok, out_ok, frames) ==
    /\ proc.pc = "idle"
    /\ LET r == Refused(lv2.shutdown_, lv2.instance_, in_ok, out_ok, frames)
       IN proc' = [pc |-> IF r THEN "ret" ELSE "stepA",
                   in_ok |-> in_ok, out_ok |-> out_ok, frames |-> frames,
                   sh0 |-> lv2.shutdown_, inst0 |-> lv2.instance_,
                   pending0 |-> lv2.pending, steps |-> {}, ret |-> FALSE,
                   run_active |-> TRUE]
    /\ UNCHANGED <<lv2, notLife>>

\* Step A: lilv_instance_connect_port for the audio ports
ProcStepA ==
    /\ proc.pc = "stepA"
    /\ proc' = [proc EXCEPT !.pc = "stepB", !.steps = @ \cup {"connect"}]
    /\ UNCHANGED <<lv2, notLife>>

\* Step B: if (ui_to_dsp_pending.exchange(false, acquire)) inject the message
ProcStepB ==
    /\ proc.pc = "stepB"
    /\ proc' = [proc EXCEPT !.pc = "stepC",
                  !.steps = IF lv2.pending THEN @ \cup {"exchange", "inject"}
                                           ELSE @ \cup {"exchange"}]
    /\ lv2' = [lv2 EXCEPT !.pending = FALSE]
    /\ UNCHANGED notLife

\* Step C: lilv_instance_run; Steps D, E; return true
ProcStepC ==
    /\ proc.pc = "stepC"
    /\ proc' = [proc EXCEPT !.pc = "ret", !.steps = @ \cup {"run"},
                            !.ret = TRUE, !.run_active = lv2.active]
    /\ UNCHANGED <<lv2, notLife>>

\* process returns to its caller
ProcReturn ==
    /\ proc.pc = "ret"
    /\ proc' = ProcIdle
    /\ UNCHANGED <<lv2, notLife>>

NextLife ==
    \/ \E ok \in BOOLEAN : Initialize(ok)
    \/ Start
    \/ Stop
    \/ ClosePlugin
    \/ SetPending
    \/ \E in_ok \in BOOLEAN, out_ok \in BOOLEAN, frames \in FrameCounts :
          ProcGuards(in_ok, out_ok, frames)
    \/ ProcStepA
    \/ ProcStepB
    \/ ProcStepC
    \/ ProcReturn

(***************************************************************************)
(* State I/O of one LV2Plugin with one control input port                  *)
(* (LV2Plugin.hpp: saveState, loadState, set_port_value).                  *)
(***************************************************************************)
\* a state file that is missing or cannot be parsed
NoFile == [readable |-> FALSE, has |-> FALSE, val |-> 0, truth |-> 0]

NoStateOp == [op |-> "", ret |-> FALSE, before |-> 0, readable |-> FALSE,
              inst |-> FALSE]

\* after initialize() (st_inst) or before it: the control scalar holds the
\* port's default
StateSetup(inst_ok) ==
    /\ st_inst = inst_ok
    /\ st_control = CtlDefault
    /\ st_file = NoFile
    /\ st_last = NoStateOp
    /\ st_crashed = FALSE

StateIdle == StateSetup(TRUE)

StateInit == \E inst_ok \in BOOLEAN : StateSetup(inst_ok)

\* the control scalar is changed (jni_bridge.cpp setValue:
\* ports_.at(index).control = value)
StSetControl(v) ==
    /\ ~st_crashed /\ st_inst
    /\ st_control' = v
    /\ st_last' = NoStateOp
    /\ UNCHANGED <<st_inst, st_file, st_crashed, notState>>

\* the state file is removed or damaged outside the program
StFileLost ==
    /\ ~st_crashed /\ st_file # NoFile
    /\ st_file' = NoFile
    /\ UNCHANGED <<st_inst, st_control, st_last, st_crashed, notState>>

\* saveState(filePath):
\*   if (!instance_ || !plugin_) return false;
\*   state = lilv_state_new_from_instance(..., (LilvGetPortValueFunc)
\*                                        set_port_value, this, ...);
\*   result = lilv_state_save(...);  return result == 0;
\* lilv asks get_value(symbol, user_data, &size, &type) for each control
\* input and stores the size bytes behind the pointer returned.  The
\* function it is given is set_port_value, which takes (symbol, user_data,
\* value, size, type) and returns nothing: the call is undefined.  What
\* lilv takes for the returned pointer, size and type is whatever the
\* registers hold: a null pointer (no value stored for the port), a pointer
\* to some bytes (any value stored), or one whose copy ends the process.
SaveState(io_ok) ==
    /\ ~st_crashed
    /\ IF ~st_inst
         THEN /\ st_last' = [op |-> "save", ret |-> FALSE,
                             before |-> st_control,
                             readable |-> st_file.readable, inst |-> FALSE]
              /\ UNCHANGED <<st_file, st_crashed>>
         ELSE \/ /\ st_crashed' = TRUE
                 /\ UNCHANGED <<st_file, st_last>>
              \/ /\ \E has \in BOOLEAN, g \in CtlValues :
                       st_file' = IF io_ok
                                    THEN [readable |-> TRUE, has |-> has,
                                          val |-> IF has THEN g ELSE 0,
                                          truth |-> st_control]
                                    ELSE st_file
                 /\ st_last' = [op |-> "save", ret |-> io_ok,
                                before |-> st_control,
                                readable |-> st_file.readable, inst |-> TRUE]
                 /\ UNCHANGED st_crashed
    /\ UNCHANGED <<st_inst, st_control, notState>>

\* loadState, had it gone on with a file it could not read
LoadReadable_any(file) == TRUE

\* state = lilv_state_new_from_file(...);  if (!state) return false;
LoadReadable(file) == file.readable

\* set_port_value(symbol, this, value, size, type), called by
\* lilv_state_restore for each port value of the state:
\*   if (p.is_control && size == sizeof(float)) p.control = *(const float*)value;
Restored(control, file) == IF file.has THEN file.val ELSE control

\* loadState(filePath):
\*   if (!instance_) return false;
\*   state = lilv_state_new_from_file(...);  if (!state) return false;
\*   lilv_state_restore(state, instance_, set_port_value, this, 0, feats);
\*   return true;
LoadState ==
    /\ ~st_crashed
    /\ LET ok == st_inst /\ LoadReadable(st_file)
       IN /\ st_control' = IF ok THEN Restored(st_control, st_file)
                                 ELSE st_control
          /\ st_last' = [op |-> "load", ret |-> ok, before |-> st_control,
                         readable |-> st_file.readable, inst |-> st_inst]
    /\ UNCHANGED <<st_inst, st_file, st_crashed, notState>>

NextState ==
    \/ \E v \in CtlValues : StSetControl(v)
    \/ StFileLost
    \/ \E io_ok \in BOOLEAN : SaveState(io_ok)
    \/ LoadState

(***************************************************************************)
(* One LV2Plugin object from construction to destruction: initialize,      *)
(* closePlugin and the destructor on the UI thread, the worker thread, and *)
(* process() on the audio thread (LV2Plugin.hpp).                          *)
(***************************************************************************)
\* what the object allocates
Resources == {"rings", "instance", "atoms", "controls", "nodes"}

\* the URIs of feats[] in init_instance
HostFeatures == {"urid#map", "urid#unmap", "options#options",
                 "buf-size#boundedBlockLength", "state#mapPath",
                 "state#makePath", "state#freePath", "worker#schedule"}

\* the required features a plugin may declare
RequiredSets == SUBSET {"urid#map", "worker#schedule", "foreign#feature"}

\* closePlugin, had it nulled the node pointers after freeing them
NodesAfterFree_nulled == "null"

\* closePlugin leaves audio_class_ ... rsz_minimumSize_ as they are after
\* lilv_node_free
NodesAfterFree == "set"

\* stop_worker, had it not waited for the thread
Joined_nowait(w) == TRUE

\* worker_thread.join() returns once the thread function has returned
Joined(w) == w.pc \in {"none", "exited"}

\* free() / delete / lilv_*_free of an allocation: a second one is a double
\* free
Freed(h, r) == [h EXCEPT ![r] = IF h[r] = "live" THEN "freed" ELSE "twice"]

ClIdle == [pc |-> "idle", caller |-> "", order |-> <<>>]

WtNone == [pc |-> "none", late |-> 0, bad |-> FALSE]

TpIdle == [pc |-> "idle", after_close |-> FALSE, ret |-> FALSE]

NoInit == [called |-> FALSE, ret |-> FALSE, required |-> {},
           instantiated |-> FALSE, worker |-> FALSE, activated |-> FALSE]

\* LV2Plugin(world, plugin, ...): instance_(nullptr), shutdown_(false); the
\* five LilvNode* members are not initialized; LV2HostWorker: requests =
\* nullptr, running{false}
NewPlugin == [nodes |-> "uninit", instance_ |-> FALSE, ports_ |-> FALSE,
              controls_ |-> FALSE, shutdown_ |-> FALSE, running |-> FALSE,
              requests |-> FALSE, joinable |-> FALSE, iface |-> FALSE,
              active |-> FALSE, destroyed |-> FALSE]

TearSetup ==
    /\ pl = NewPlugin
    /\ heap = [r \in Resources |-> "none"]
    /\ cl = ClIdle
    /\ wt = WtNone
    /\ tp = TpIdle
    /\ init_last = NoInit

TearIdle == TearSetup

TearInit == TearSetup

\* init_instance, had it instantiated without looking at the required
\* features
checkFeatures_any(required) == TRUE

\* checkFeatures(feats): every required feature URI is in the table
checkFeatures(required) == \A uri \in required : uri \in HostFeatures

\* initialize():
\*   if (!world_ || !plugin_) return false;
\*   audio_class_ = lilv_new_uri(...); ... init_urids(); init_features();
\*   if (!init_ports()) return false;       (allocates atom buffers, controls)
\*   if (!init_instance()) return false;
\* init_instance():
\*   if (!checkFeatures(feats)) return false;
\*   instance_ = lilv_plugin_instantiate(...);  if (!instance_) return false;
\*   if (iface) { requests = create; responses = create; running.store(true);
\*                worker_thread = std::thread(worker_thread_func, ...); }
\*   lilv_instance_activate(instance_);  return true;
TearInitialize(plugin_ok, required, inst_ok, iface) ==
    /\ ~init_last.called /\ ~pl.destroyed /\ cl.pc = "idle"
    /\ LET feat_ok == checkFeatures(required)
           made == plugin_ok /\ feat_ok /\ inst_ok
           work == made /\ iface
       IN /\ pl' = IF ~plugin_ok THEN pl
                   ELSE [pl EXCEPT !.nodes = "set", !.ports_ = TRUE,
                                   !.controls_ = TRUE, !.instance_ = made,
                                   !.active = made, !.iface = work,
                                   !.running = work, !.requests = work,
                                   !.joinable = work]
          /\ heap' = IF ~plugin_ok THEN heap
                     ELSE [r \in Resources |->
                             IF r = "instance" THEN (IF made THEN "live" ELSE "none")
                             ELSE IF r = "rings" THEN (IF work THEN "live" ELSE "none")
                             ELSE "live"]
          /\ wt' = IF plugin_ok /\ work THEN [WtNone EXCEPT !.pc = "test"]
                                        ELSE wt
          /\ init_last' = [called |-> TRUE, ret |-> made,
                           required |-> IF plugin_ok THEN required ELSE {},
                           instantiated |-> plugin_ok /\ feat_ok /\ inst_ok,
                           worker |-> work, activated |-> made]
    /\ UNCHANGED <<cl, tp, notTear>>

\* stop(): shutdown_.store(true, release); deactivate
TearStop ==
    /\ ~pl.destroyed /\ cl.pc = "idle" /\ ~pl.shutdown_
    /\ pl' = [pl EXCEPT !.shutdown_ = TRUE,
                        !.active = IF pl.instance_ THEN FALSE ELSE @]
    /\ UNCHANGED <<heap, cl, wt, tp, init_last, notTear>>

\* closePlugin() is entered, by the caller or by ~LV2Plugin()
ClBegin(caller) ==
    /\ cl.pc = "idle" /\ ~pl.destroyed
    /\ cl' = [pc |-> "exchange", caller |-> caller, order |-> <<>>]
    /\ UNCHANGED <<pl, heap, wt, tp, init_last, notTear>>

\* stop_worker(): if (!running.exchange(false)) return;
ClExchange ==
    /\ cl.pc = "exchange"
    /\ pl' = [pl EXCEPT !.running = FALSE]
    /\ cl' = [cl EXCEPT !.pc = IF pl.running THEN "join" ELSE "instance",
                        !.order = IF pl.running THEN Append(@, "stop_worker")
                                                ELSE @]
    /\ UNCHANGED <<heap, wt, tp, init_last, notTear>>

\* if (worker_thread.joinable()) worker_thread.join();
ClJoin ==
    /\ cl.pc = "join"
    /\ pl.joinable => Joined(wt)
    /\ pl' = [pl EXCEPT !.joinable = FALSE]
    /\ cl' = [cl EXCEPT !.pc = "rings", !.order = Append(@, "join")]
    /\ UNCHANGED <<heap, wt, tp, init_last, notTear>>

\* if (requests) { lv2_ringbuffer_free(requests); requests = nullptr; }
\* the same for responses; iface = nullptr
ClRings ==
    /\ cl.pc = "rings"
    /\ heap' = IF pl.requests THEN Freed(heap, "rings") ELSE heap
    /\ pl' = [pl EXCEPT !.requests = FALSE, !.iface = FALSE]
    /\ cl' = [cl EXCEPT !.pc = "instance",
                        !.order = IF pl.requests THEN Append(@, "free_rings")
                                                 ELSE @]
    /\ UNCHANGED <<wt, tp, init_last, notTear>>

\* if (instance_) { lilv_instance_deactivate(instance_);
\*                  lilv_instance_free(instance_); instance_ = nullptr; }
ClInstance ==
    /\ cl.pc = "instance"
    /\ heap' = IF pl.instance_ THEN Freed(heap, "instance") ELSE heap
    /\ pl' = [pl EXCEPT !.instance_ = FALSE, !.active = FALSE]
    /\ cl' = [cl EXCEPT !.pc = "atoms",
                        !.order = IF pl.instance_
                                    THEN @ \o <<"deactivate", "free_instance">>
                                    ELSE @]
    /\ UNCHANGED <<wt, tp, init_last, notTear>>

\* for (auto& p : ports_) { if (p.atom) free(p.atom); delete p.atom_state; }
\* ports_.clear();
ClAtoms ==
    /\ cl.pc = "atoms"
    /\ heap' = IF pl.ports_ THEN Freed(heap, "atoms") ELSE heap
    /\ pl' = [pl EXCEPT !.ports_ = FALSE]
    /\ cl' = [cl EXCEPT !.pc = "controls",
                        !.order = IF pl.ports_ THEN Append(@, "free_atoms")
                                               ELSE @]
    /\ UNCHANGED <<wt, tp, init_last, notTear>>

\* for (auto* control : controls_) delete control;  controls_.clear();
ClControls ==
    /\ cl.pc = "controls"
    /\ heap' = IF pl.controls_ THEN Freed(heap, "controls") ELSE heap
    /\ pl' = [pl EXCEPT !.controls_ = FALSE]
    /\ cl' = [cl EXCEPT !.pc = "nodes"]
    /\ UNCHANGED <<wt, tp, init_last, notTear>>

\* if (audio_class_) lilv_node_free(audio_class_); ... (five nodes).  A
\* pointer that was never assigned holds an indeterminate value: null
\* (nothing is freed) or not (something that was never allocated is freed).
ClNodes ==
    /\ cl.pc = "nodes"
    /\ \/ /\ pl.nodes = "set"
          /\ heap' = Freed(heap, "nodes")
          /\ pl' = [pl EXCEPT !.nodes = NodesAfterFree,
                              !.destroyed = (cl.caller = "dtor")]
          /\ cl' = [cl EXCEPT !.pc = "idle", !.order = Append(@, "free_nodes")]
       \/ /\ pl.nodes # "set"
          /\ \E wild \in BOOLEAN :
                heap' = IF wild /\ pl.nodes = "uninit"
                          THEN [heap EXCEPT !["nodes"] = "wild"] ELSE heap
          /\ pl' = [pl EXCEPT !.destroyed = (cl.caller = "dtor")]
          /\ cl' = [cl EXCEPT !.pc = "idle"]
    /\ UNCHANGED <<wt, tp, init_last, notTear>>

\* worker_thread_func: while (w->running.load())
WtTest ==
    /\ wt.pc = "test"
    /\ wt' = [wt EXCEPT !.pc = IF pl.running THEN "body" ELSE "exited"]
    /\ UNCHANGED <<pl, heap, cl, tp, init_last, notTear>>

\* one turn of the loop body: lv2_ringbuffer_read_space(w->requests) and
\* either sleep_for(1 ms) (nothing to do), or continue (a record is partly
\* written), or read the record and call work(), which may write to
\* w->responses
WtBody ==
    /\ wt.pc = "body"
    /\ \E idle \in BOOLEAN :
          wt' = [pc |-> IF idle THEN "sleep" ELSE "test",
                 late |-> IF pl.running THEN wt.late ELSE IF wt.late < 2 THEN wt.late + 1 ELSE 2,
                 bad |-> wt.bad \/ heap["rings"] # "live"]
    /\ UNCHANGED <<pl, heap, cl, tp, init_last, notTear>>

\* the sleep ends; continue
WtSleep ==
    /\ wt.pc = "sleep"
    /\ wt' = [wt EXCEPT !.pc = "test"]
    /\ UNCHANGED <<pl, heap, cl, tp, init_last, notTear>>

\* process(): if (shutdown_.load(acquire) || !instance_) return false;
\* (buffers and numFrames valid)
TpGuards ==
    /\ tp.pc = "idle" /\ ~pl.destroyed
    /\ LET r == Refused(pl.shutdown_, pl.instance_, TRUE, TRUE, 1)
       IN tp' = [pc |-> IF r THEN "ret" ELSE "run",
                 after_close |-> cl.pc # "idle", ret |-> ~r]
    /\ UNCHANGED <<pl, heap, cl, wt, init_last, notTear>>

\* Steps A..E; return true
TpRun ==
    /\ tp.pc = "run"
    /\ tp' = [tp EXCEPT !.pc = "ret"]
    /\ UNCHANGED <<pl, heap, cl, wt, init_last, notTear>>

\* process returns to its caller
TpReturn ==
    /\ tp.pc = "ret"
    /\ tp' = TpIdle
    /\ UNCHANGED <<pl, heap, cl, wt, init_last, notTear>>

NextTear ==
    \/ \E plugin_ok \in BOOLEAN, required \in RequiredSets,
          inst_ok \in BOOLEAN, iface \in BOOLEAN :
          TearInitialize(plugin_ok, required, inst_ok, iface)
    \/ TearStop
    \/ \E caller \in {"explicit", "dtor"} : ClBegin(caller)
    \/ ClExchange
    \/ ClJoin
    \/ ClRings
    \/ ClInstance
    \/ ClAtoms
    \/ ClControls
    \/ ClNodes
    \/ WtTest
    \/ WtBody
    \/ WtSleep
    \/ TpGuards
    \/ TpRun
    \/ TpReturn

(***************************************************************************)
(* The worker's responses (LV2Plugin.hpp: host_respond on the worker       *)
(* thread, deliver_worker_responses on the audio thread after run()).      *)
(* Each call of a ring function is one step.                               *)
(***************************************************************************)
\* host_worker_.response_buffer.size(): resize(8192), the capacity of the
\* response ring
RespBufLen == WorkRingSize

\* host_respond, had it written whatever the space
RespFits_always(space, total) == TRUE

\* if (lv2_ringbuffer_write_space(w->responses) < total) return ERR_NO_SPACE;
RespFits(space, total) == ~(space < total)

RspIdle == [pc |-> "idle", size |-> 0, data |-> <<>>, ret |-> ""]

DrainIdle == [pc |-> "idle", size |-> 0]

\* init_instance: responses = lv2_ringbuffer_create(8192);
\*                response_buffer.resize(8192)
RespSetup ==
    /\ resp = [buf |-> [c \in 0..(WorkRingSize - 1) |-> Garbage],
               write_ptr |-> 0, read_ptr |-> 0]
    /\ rsp = RspIdle
    /\ drain = DrainIdle
    /\ responded = <<>>
    /\ delivered = <<>>
    /\ resp_calls = 0

RespIdle == RespSetup

RespInit == RespSetup

\* host_respond(handle, size, data), called by the plugin's work():
\*   const size_t total = sizeof(uint32_t) + size;
\*   if (write_space(responses) < total) return LV2_WORKER_ERR_NO_SPACE;
RespBegin(size) ==
    /\ rsp.pc = "idle"
    /\ resp_calls < MaxRecs
    /\ resp_calls' = resp_calls + 1
    /\ LET fits == RespFits(RingWriteSpace(resp), HdrLen + size)
       IN rsp' = [pc |-> IF fits THEN "hdr" ELSE "ret", size |-> size,
                  data |-> WorkData(resp_calls + 1, size),
                  ret |-> IF fits THEN "" ELSE WORKER_ERR_NO_SPACE]
    /\ UNCHANGED <<resp, drain, responded, delivered, notResp>>

\*   lv2_ringbuffer_write(responses, (const char*)&size, sizeof(uint32_t));
RespHdr ==
    /\ rsp.pc = "hdr"
    /\ resp' = RingWrite(resp, U32Bytes(rsp.size))
    /\ rsp' = [rsp EXCEPT !.pc = "data"]
    /\ UNCHANGED <<drain, responded, delivered, resp_calls, notResp>>

\*   lv2_ringbuffer_write(responses, (const char*)data, size);
\*   return LV2_WORKER_SUCCESS;
RespData ==
    /\ rsp.pc = "data"
    /\ resp' = RingWrite(resp, rsp.data)
    /\ responded' = Append(responded, rsp.data)
    /\ rsp' = [rsp EXCEPT !.pc = "ret", !.ret = WORKER_SUCCESS]
    /\ UNCHANGED <<drain, delivered, resp_calls, notResp>>

\* host_respond returns to work()
RespReturn ==
    /\ rsp.pc = "ret"
    /\ rsp' = RspIdle
    /\ UNCHANGED <<resp, drain, responded, delivered, resp_calls, notResp>>

\* process() Step D, after lilv_instance_run:
\*   if (host_worker_.iface) deliver_worker_responses();
DrainBegin ==
    /\ drain.pc = "idle"
    /\ drain' = [DrainIdle EXCEPT !.pc = "test"]
    /\ UNCHANGED <<resp, rsp, responded, delivered, resp_calls, notResp>>

\* while (true) {
\*   if (read_space(responses) < sizeof(uint32_t)) break;
\*   uint32_t size;  lv2_ringbuffer_peek(responses, &size, sizeof(uint32_t));
DrainTest ==
    /\ drain.pc = "test"
    /\ drain' = IF RingReadSpace(resp) < HdrLen
                  THEN DrainIdle
                  ELSE [pc |-> "check", size |-> U32Of(RingPeek(resp, HdrLen))]
    /\ UNCHANGED <<resp, rsp, responded, delivered, resp_calls, notResp>>

\*   if (read_space(responses) < sizeof(uint32_t) + size) break;
\*   lv2_ringbuffer_read(responses, &size, sizeof(uint32_t));
DrainCheck ==
    /\ drain.pc = "check"
    /\ IF RingReadSpace(resp) < HdrLen + drain.size
         THEN /\ drain' = DrainIdle
              /\ UNCHANGED resp
         ELSE /\ drain' = [pc |-> "data",
                           size |-> U32Of(RingPeek(resp, HdrLen))]
              /\ resp' = RingRead(resp, HdrLen)
    /\ UNCHANGED <<rsp, responded, delivered, resp_calls, notResp>>

\*   if (size <= response_buffer.size()) {
\*       lv2_ringbuffer_read(responses, response_buffer.data(), size);
\*       iface->work_response(dsp_handle, size, response_buffer.data());
\*       continue; }
\*   (a larger record is read away in chunks and not delivered)
\* }
DrainData ==
    /\ drain.pc = "data"
    /\ delivered' = IF drain.size <= RespBufLen
                      THEN Append(delivered, RingPeek(resp, drain.size))
                      ELSE delivered
    /\ resp' = RingRead(resp, drain.size)
    /\ drain' = [DrainIdle EXCEPT !.pc = "test"]
    /\ UNCHANGED <<rsp, responded, resp_calls, notResp>>

NextResp ==
    \/ \E size \in WorkSizes : RespBegin(size)
    \/ RespHdr
    \/ RespData
    \/ RespReturn
    \/ DrainBegin
    \/ DrainTest
    \/ DrainCheck
    \/ DrainData

(***************************************************************************)
(* The headers of one atom input port and one atom output port through the *)
(* cycles of process() (LV2Plugin.hpp: init_ports, process Steps B, C, E;  *)
(* LV2OboeHost: init_ports, set_atom_message, onAudioReady).  Offsets are  *)
(* bytes from the start of the port's buffer.                              *)
(***************************************************************************)
\* sizeof(LV2_Atom_Sequence_Body): uint32_t unit, uint32_t pad
SeqBodyLen == 8

\* sizeof(LV2_Atom_Event): int64_t frames, LV2_Atom body
EvHdrLen == 16

\* p.atom_buf_size = required_atom_size_ (8192 in the code)
AtomBufSize == 8 * MaxBufWords

\* the payload sizes the UI writes
PaySizes == 0..(AtomBufSize + 1)

\* lv2_atom_pad_size: the size rounded up to a multiple of 8
PadSize(n) == ((n + 7) \div 8) * 8

\* sizeof(evbuf), had both hosts sized the scratch buffer by the payload
ScratchLen_bypayload(h, body_size) == EvHdrLen + body_size

\* LV2Plugin:   uint8_t evbuf[sizeof(LV2_Atom_Event) + body_size];
\* LV2OboeHost: uint8_t evbuf[sizeof(LV2_Atom_Event) + required_atom_size];
ScratchLen(h, body_size) ==
    IF h = "LV2Plugin" THEN EvHdrLen + body_size ELSE EvHdrLen + AtomBufSize

\* the header the input port is given before an event is appended, had it
\* been an empty sequence
InjectStart_body == SeqBodyLen

\* p.atom->atom.size = 0;  (Step B, before the append)
InjectStart == 0

\* the header the input port is left with after the cycle, had it been an
\* empty sequence
InputReset_body == SeqBodyLen

\* Step E: if (p.is_atom && p.is_input) p.atom->atom.size = 0;
InputReset == 0

\* lv2_atom_sequence_append_event(seq, capacity, event):
\*   total_size = sizeof(*event) + event->body.size;
\*   if (capacity - seq->atom.size < total_size) return NULL;
\*   e = lv2_atom_sequence_end(&seq->body, seq->atom.size);
\*   memcpy(e, event, total_size);
\*   seq->atom.size += lv2_atom_pad_size(total_size);
\* the port afterwards; extent is the end of the bytes written
AppendEvent(port, capacity, body_size) ==
    LET total_size == EvHdrLen + body_size
    IN IF capacity - port.size < total_size
         THEN [port EXCEPT !.appended = FALSE]
         ELSE [port EXCEPT
                 !.extent = AtomHdrLen + PadSize(port.size) + total_size,
                 !.size = port.size + PadSize(total_size),
                 !.appended = TRUE]

\* the size an output port's header is given after the cycle, had it been
\* the room behind the header
OutputReset_room == AtomBufSize - AtomHdrLen

\* Step E: p.atom->atom.type = 0; p.atom->atom.size = required_atom_size_;
OutputReset == AtomBufSize

SqIdle == [pc |-> "idle", cycle |-> 1, took |-> FALSE, n |-> 0]

NoScratch == [len |-> 0, used |-> 0]

\* init_ports: p.atom->atom.type = Sequence; an input port gets
\* atom.size = sizeof(LV2_Atom_Sequence_Body), an output port atom.size = 0;
\* p.atom_state = new AtomState()
SeqSetup(h) ==
    /\ sq_host = h
    /\ sq_slot = [pending |-> FALSE, size |-> 0]
    /\ sq_in = [type |-> "Sequence", size |-> SeqBodyLen, extent |-> 0,
                appended |-> FALSE]
    /\ sq_out = [type |-> "Sequence", size |-> 0]
    /\ sq_scratch = NoScratch
    /\ sq = SqIdle

SeqIdle == SeqSetup("LV2Plugin")

SeqInit == \E h \in Hosts : SeqSetup(h)

\* LV2OboeHost::set_atom_message(port_index, type, data, size):
\*   ui_to_dsp.resize(size); memcpy(...); ui_to_dsp_pending.store(true)
\* (in LV2Plugin the UI's write goes to the AtomPortControl's own AtomState
\* and never reaches the port's: see UiTarget)
SqSetMessage(size) ==
    /\ sq_host = "LV2OboeHost"
    /\ sq.pc = "idle"
    /\ sq_slot' = [pending |-> TRUE, size |-> size]
    /\ UNCHANGED <<sq_host, sq_in, sq_out, sq_scratch, sq, notSeq>>

\* process() / onAudioReady is entered; LV2OboeHost resets the output port
\* before the run:
\*   p.atom->atom.type = 0; p.atom->atom.size = p.atom_buf_size - sizeof(LV2_Atom);
SqBegin ==
    /\ sq.pc = "idle"
    /\ sq_out' = IF sq_host = "LV2OboeHost"
                   THEN [type |-> "none", size |-> AtomBufSize - AtomHdrLen]
                   ELSE sq_out
    /\ sq' = [sq EXCEPT !.pc = "stepB", !.took = FALSE, !.n = 0]
    /\ sq_scratch' = NoScratch
    /\ UNCHANGED <<sq_host, sq_slot, sq_in, notSeq>>

\* Step B: if (ui_to_dsp_pending.exchange(false, acquire)) {
\*     p.atom->atom.type = Sequence;  p.atom->atom.size = 0;
\*     body_size = ui_to_dsp.size();  uint8_t evbuf[...];
\*     memcpy(LV2_ATOM_BODY(&ev->body), ui_to_dsp.data(), body_size);
\*     lv2_atom_sequence_append_event(p.atom, p.atom_buf_size, ev); }
SqStepB ==
    /\ sq.pc = "stepB"
    /\ sq_slot' = [sq_slot EXCEPT !.pending = FALSE]
    /\ IF sq_slot.pending
         THEN /\ sq_scratch' = [len |-> ScratchLen(sq_host, sq_slot.size),
                                used |-> EvHdrLen + sq_slot.size]
              /\ sq_in' = AppendEvent([sq_in EXCEPT !.type = "Sequence",
                                                    !.size = InjectStart,
                                                    !.extent = 0],
                                      AtomBufSize, sq_slot.size)
              /\ sq' = [sq EXCEPT !.pc = "run", !.took = TRUE,
                                  !.n = sq_slot.size]
         ELSE /\ sq_in' = [sq_in EXCEPT !.extent = 0, !.appended = FALSE]
              /\ sq' = [sq EXCEPT !.pc = "run"]
              /\ UNCHANGED sq_scratch
    /\ UNCHANGED <<sq_host, sq_out, notSeq>>

\* Step C: lilv_instance_run: the plugin writes its output sequence, of any
\* size up to what the header advertised
SqRun ==
    /\ sq.pc = "run"
    /\ \E words \in 1..MaxBufWords :
          /\ 8 * words <= sq_out.size \/ words = 1
          /\ sq_out' = [type |-> "Sequence", size |-> 8 * words]
    /\ sq' = [sq EXCEPT !.pc = "stepE"]
    /\ UNCHANGED <<sq_host, sq_slot, sq_in, sq_scratch, notSeq>>

\* Step E: the input port's atom.size = 0; the output port's
\* atom.type = 0, atom.size = required_atom_size_
SqStepE ==
    /\ sq.pc = "stepE"
    /\ sq_in' = [sq_in EXCEPT !.size = InputReset]
    /\ sq_out' = [type |-> "none", size |-> OutputReset]
    /\ sq' = [sq EXCEPT !.pc = "idle",
                        !.cycle = IF @ < MaxCycles THEN @ + 1 ELSE @]
    /\ UNCHANGED <<sq_host, sq_slot, sq_scratch, notSeq>>

NextSeq ==
    \/ \E size \in PaySizes : SqSetMessage(size)
    \/ SqBegin
    \/ SqStepB
    \/ SqRun
    \/ SqStepE

(***************************************************************************)
(* One control input port: the Port entry of ports_, whose control scalar  *)
(* is connected to the plugin instance, and the PluginControl object that  *)
(* init_ports creates for the same port.                                   *)
(***************************************************************************)

\* init_ports: p.control = 0, p.defvalue = 0; for a control input
\* p.defvalue = the declared default if there is one; p.control = p.defvalue
PortEntry(pdflt) ==
    LET d == IF pdflt # Absent THEN pdflt ELSE 0
    IN [defvalue |-> d, control |-> d]

NoRun == [seen |-> Absent, held |-> Absent]

BindSetup(pmin, pmax, pdflt) ==
    /\ bd_control = ControlPortFloat(pmin, pmax, pdflt)
    /\ bd_port = PortEntry(pdflt)
    /\ bd_run = NoRun

BindIdle == BindSetup(0, 1, 0)

BindInit ==
    \E pmin \in RangeVals \cup {Absent}, pmax \in RangeVals \cup {Absent},
       pdflt \in RangeVals \cup {Absent} : BindSetup(pmin, pmax, pdflt)

\* init_instance: lilv_instance_connect_port(instance_, p.index, &p.control):
\* the float the plugin reads at run() is the Port's control scalar
ConnectedScalar == bd_port.control

\* getControl(symbol)->setValue(v): ControlPortFloat::setValue stores the
\* clamped float in its own member value_
BdSetValue(v) ==
    /\ \E r \in ClampResults(v, bd_control.minval_, bd_control.maxval_) :
          bd_control' = [bd_control EXCEPT !.value_ = r]
    /\ UNCHANGED <<bd_port, bd_run, notBind>>

\* getControl(symbol)->reset(): value_ = defvalue_
BdReset ==
    /\ bd_control' = [bd_control EXCEPT !.value_ = bd_control.defvalue_]
    /\ UNCHANGED <<bd_port, bd_run, notBind>>

\* loadState -> set_port_value: p.control = *(const float*)value; the port is
\* connected to &p.control again
BdSetPortValue(v) ==
    /\ bd_port' = [bd_port EXCEPT !.control = v]
    /\ UNCHANGED <<bd_control, bd_run, notBind>>

\* the Control Surface setValue: plugin->ports_.at(index).control = value
BdJniSetValue(v) ==
    /\ bd_port' = [bd_port EXCEPT !.control = v]
    /\ UNCHANGED <<bd_control, bd_run, notBind>>

\* process Step C: lilv_instance_run reads the connected scalar
\* seen: what the plugin read; held: what getValue returned at that time
BdRun ==
    /\ bd_run' = [seen |-> ConnectedScalar, held |-> bd_control.value_]
    /\ UNCHANGED <<bd_control, bd_port, notBind>>

NextBind ==
    \/ \E v \in CpfValues : BdSetValue(v)
    \/ BdReset
    \/ \E v \in CpfValues : BdSetPortValue(v)
    \/ \E v \in CpfValues : BdJniSetValue(v)
    \/ BdRun

InitChain == RbInit /\ AtomIdle /\ ChainInit /\ CpfIdle /\ UridIdle /\ WorkIdle /\ EvtIdle /\ LifeIdle /\ StateIdle /\ TearIdle /\ RespIdle /\ SeqIdle /\ BindIdle

SpecChain == InitChain /\ [][NextChain]_vars

\* the UI thread alone: the chain is built and parameters are set
NextCtl ==
    \/ \E position \in 0..NSlots, uri \in Uris : AddPlugin_take(position, uri)
    \/ AddPlugin_close
    \/ AddPlugin_free
    \/ AddPlugin_create
    \/ AddPlugin_install
    \/ \E position \in 0..NSlots : DeletePlugin_null(position)
    \/ DeletePlugin_deref
    \/ JniReturn
    \/ \E p \in 0..NSlots, index \in {0, CtlPort, NumPorts}, value \in CtlValues :
          JniSetValue(p, index, value)
    \/ \E uri \in Catalog, init_ok \in BOOLEAN : JniTest(uri, init_ok)

SpecCtl == InitChain /\ [][NextCtl]_vars

InitCpf == RbInit /\ AtomIdle /\ ChainInit /\ CpfInit /\ UridIdle /\ WorkIdle /\ EvtIdle /\ LifeIdle /\ StateIdle /\ TearIdle /\ RespIdle /\ SeqIdle /\ BindIdle

SpecCpf == InitCpf /\ [][NextCpf]_vars

InitAtom == RbInit /\ AtomInit /\ ChainInit /\ CpfIdle /\ UridIdle /\ WorkIdle /\ EvtIdle /\ LifeIdle /\ StateIdle /\ TearIdle /\ RespIdle /\ SeqIdle /\ BindIdle

SpecAtom == InitAtom /\ [][NextAtom]_vars

InitUrid == RbInit /\ AtomIdle /\ ChainInit /\ CpfIdle /\ UridInit /\ WorkIdle /\ EvtIdle /\ LifeIdle /\ StateIdle /\ TearIdle /\ RespIdle /\ SeqIdle /\ BindIdle

SpecUrid == InitUrid /\ [][NextUrid]_vars

InitWork == RbInit /\ AtomIdle /\ ChainInit /\ CpfIdle /\ UridIdle /\ WorkInit /\ EvtIdle /\ LifeIdle /\ StateIdle /\ TearIdle /\ RespIdle /\ SeqIdle /\ BindIdle

SpecWork == InitWork /\ [][NextWork]_vars

InitEvt == RbInit /\ AtomIdle /\ ChainInit /\ CpfIdle /\ UridIdle /\ WorkIdle /\ EvtInit /\ LifeIdle /\ StateIdle /\ TearIdle /\ RespIdle /\ SeqIdle /\ BindIdle

SpecEvt == InitEvt /\ [][NextEvt]_vars

\* the buffer size of a UI thread that passes the same size on every call
UiFixedBuf == AtomHdrLen + 1

\* the UI thread keeps calling readAtomMessage with that buffer size
SpecEvtLive == SpecEvt /\ WF_vars(ReadAtomMessage(UiFixedBuf))

InitLife == RbInit /\ AtomIdle /\ ChainInit /\ CpfIdle /\ UridIdle /\ WorkIdle /\ EvtIdle /\ LifeInit /\ StateIdle /\ TearIdle /\ RespIdle /\ SeqIdle /\ BindIdle

SpecLife == InitLife /\ [][NextLife]_vars

InitState == RbInit /\ AtomIdle /\ ChainInit /\ CpfIdle /\ UridIdle /\ WorkIdle /\ EvtIdle /\ LifeIdle /\ StateInit /\ TearIdle /\ RespIdle /\ SeqIdle /\ BindIdle

SpecState == InitState /\ [][NextState]_vars

InitTear == RbInit /\ AtomIdle /\ ChainInit /\ CpfIdle /\ UridIdle /\ WorkIdle /\ EvtIdle /\ LifeIdle /\ StateIdle /\ TearInit /\ RespIdle /\ SeqIdle /\ BindIdle

SpecTear == InitTear /\ [][NextTear]_vars

\* the worker thread is scheduled as long as it has a step to take
SpecWorkLive ==
    SpecWork /\ WF_vars(WkPeek) /\ WF_vars(WkCheck) /\ WF_vars(WkWork)

InitResp == RbInit /\ AtomIdle /\ ChainInit /\ CpfIdle /\ UridIdle /\ WorkIdle /\ EvtIdle /\ LifeIdle /\ StateIdle /\ TearIdle /\ RespInit /\ SeqIdle /\ BindIdle

SpecResp == InitResp /\ [][NextResp]_vars

\* process() keeps being called: the audio thread takes every step of the
\* drain it can
SpecRespLive ==
    SpecResp /\ WF_vars(DrainBegin) /\ WF_vars(DrainTest)
             /\ WF_vars(DrainCheck) /\ WF_vars(DrainData)

\* the worker thread is scheduled as long as it has a step to take
SpecTearLive ==
    SpecTear /\ WF_vars(WtTest) /\ WF_vars(WtBody) /\ WF_vars(WtSleep)

InitSeq == RbInit /\ AtomIdle /\ ChainInit /\ CpfIdle /\ UridIdle /\ WorkIdle /\ EvtIdle /\ LifeIdle /\ StateIdle /\ TearIdle /\ RespIdle /\ SeqInit /\ BindIdle

SpecSeq == InitSeq /\ [][NextSeq]_vars

InitBind == RbInit /\ AtomIdle /\ ChainInit /\ CpfIdle /\ UridIdle /\ WorkIdle /\ EvtIdle /\ LifeIdle /\ StateIdle /\ TearIdle /\ RespIdle /\ SeqIdle /\ BindInit

SpecBind == InitBind /\ [][NextBind]_vars

InitRbWrap == RbInitWrap /\ AtomIdle /\ ChainInit /\ CpfIdle /\ UridIdle /\ WorkIdle /\ EvtIdle /\ LifeIdle /\ StateIdle /\ TearIdle /\ RespIdle /\ SeqIdle /\ BindIdle

SpecRbWrap == InitRbWrap /\ [][NextRb]_vars

InitRb == RbInit /\ AtomIdle /\ ChainInit /\ CpfIdle /\ UridIdle /\ WorkIdle /\ EvtIdle /\ LifeIdle /\ StateIdle /\ TearIdle /\ RespIdle /\ SeqIdle /\ BindIdle

SpecRb == InitRb /\ [][NextRb]_vars

Min(a, b) == IF a < b THEN a ELSE b

(***************************************************************************)
(* C1: for a ring of capacity C, in every state reached by interleaving    *)
(* one writer's write calls with one reader's read/peek calls,             *)
(* write_space + read_space = C and 0 <= read_space <= C.                  *)
(***************************************************************************)
C1_SpaceSum ==
    /\ lv2_ringbuffer_write_space + lv2_ringbuffer_read_space = RbSize
    /\ 0 <= lv2_ringbuffer_read_space
    /\ lv2_ringbuffer_read_space <= RbSize

\* both threads are inside a call, the indices have wrapped past the capacity
C1_Witness ==
    /\ writer.pc = "copy" /\ writer.i > 0
    /\ reader.pc = "copy" /\ reader.i > 0
    /\ write_ptr > RbSize
    /\ read_ptr > 0

(***************************************************************************)
(* C2: the bytes returned by successive reads are a prefix of the bytes    *)
(* accepted by successive writes (nothing lost, duplicated or reordered),  *)
(* and no read or peek returns a byte whose store has not completed.       *)
(***************************************************************************)
C2_FifoPrefix ==
    /\ Len(readout) <= Len(written)
    /\ \A k \in 1..Len(readout) : readout[k] = written[k]
    /\ \A k \in 1..Len(reader.dst) :
          /\ reader.idx + k <= Len(written)
          /\ reader.dst[k] = written[reader.idx + k]

\* the reader has returned bytes that were stored after the index wrapped,
\* while the writer is storing again
C2_Witness ==
    /\ Len(readout) > RbSize
    /\ writer.pc = "copy" /\ writer.i > 0

(***************************************************************************)
(* C3: write(cnt) stores exactly min(cnt, write_space) bytes and returns   *)
(* that number; on a full ring it stores nothing; it never overwrites a    *)
(* byte the reader has not consumed.                                       *)
(***************************************************************************)
C3_WriteTruncates ==
    /\ writer.pc = "idle" =>
          /\ writer.ret = Min(writer.req, writer.space0)
          /\ writer.stores = writer.ret
    /\ writer.space0 = 0 => writer.stores = 0
    /\ \A p \in read_ptr..(write_ptr - 1) : buf[Masked(p)] = p + 1

\* a write returned less than it was given, after the index wrapped, while
\* the reader still holds unconsumed bytes
C3_Witness ==
    /\ writer.pc = "idle"
    /\ writer.ret > 0 /\ writer.ret < writer.req
    /\ write_ptr > RbSize

\* the number of events in the history that carry message m
Injections(m) == Cardinality({k \in 1..Len(observed) : observed[k].body = m})

(***************************************************************************)
(* C4: every UI write to an atom input port that set the pending flag is   *)
(* observed by exactly one later DSP cycle, injected once as one event at  *)
(* frame offset 0; no cycle injects without a UI write since the last      *)
(* injection.  As a state property: no message is injected twice, every    *)
(* injected event is at frame 0 and carries a message as written, and once *)
(* a DSP cycle that began after the latest write completed has finished,   *)
(* that write has been injected.                                           *)
(***************************************************************************)
C4_ExactlyOnce ==
    /\ \A m \in 1..ui_sent : Injections(m) <= 1
    /\ \A k \in 1..Len(observed) :
          observed[k].frames = 0 /\ observed[k].body \in 1..ui_sent
    /\ (served >= 1 /\ served = ui_sent) => Injections(served) = 1

(* C5: in every interleaving of the audio thread's process calls with       *)
(* addPlugin replacing an occupied slot, or deletePlugin, on the UI thread,  *)
(* the instance that was in the slot is neither closed nor freed while a     *)
(* process call that loaded its pointer is still running.                    *)
C5_NoCloseWhileInUse ==
    (audio.pc \in {"enter", "run"}) => inst[audio.ptr].state = "active"

\* the URIs of the instances in the occupied slots, in ascending slot order
OccupiedUris ==
    LET occ == SelectSeq([s \in Slots |-> plugin_slot[s]], LAMBDA i : i # 0)
    IN [k \in 1..Len(occ) |-> inst[occ[k]].uri]

RECURSIVE ApplyChain(_, _)
\* the sample x after the plugins named by uris ran on it, first to last
ApplyChain(uris, x) ==
    IF uris = <<>> THEN x
    ELSE ApplyChain(Tail(uris), PluginRun(Head(uris), x))

\* an Engine.process call has returned and its output buffer is written
CallDone == audio.pc = "done" /\ audio.out # Unwritten

(* C6: a block processed with effects switched off, or with all four slots  *)
(* empty for the whole call, comes out identical to the input.               *)
C6_PassThrough ==
    (CallDone /\ (~audio.on \/
                  (~chain_changed /\ \A s \in Slots : plugin_slot[s] = 0)))
        => audio.out = audio.in

\* effects off, a slot holds a plugin that would alter the block, yet the
\* output is the input
C6_Witness ==
    /\ CallDone /\ ~audio.on /\ ~crashed
    /\ audio.out = audio.in
    /\ \E s \in Slots : /\ plugin_slot[s] # 0
                        /\ PluginRun(inst[plugin_slot[s]].uri, audio.in) # audio.in

(* C7: with effects on and the chain unchanged during the call, the output  *)
(* is the input passed through the occupied slots in ascending slot order,   *)
(* each instance fed the output of the one before, empty slots skipped: a    *)
(* function of the ordered sequence of non-empty slots alone.                *)
C7_AscendingOrder ==
    (CallDone /\ audio.on /\ ~chain_changed)
        => audio.out = ApplyChain(OccupiedUris, audio.in)

\* two occupied slots with an empty one between them, whose plugins give a
\* different result in the other order
C7_Witness ==
    /\ CallDone /\ audio.on /\ ~chain_changed /\ ~crashed
    /\ \E s, t \in Slots :
          /\ s + 1 < t
          /\ plugin_slot[s] # 0 /\ plugin_slot[t] # 0 /\ plugin_slot[s + 1] = 0
          /\ LET us == inst[plugin_slot[s]].uri
                 ut == inst[plugin_slot[t]].uri
             IN /\ audio.out = PluginRun(ut, PluginRun(us, audio.in))
                /\ audio.out # PluginRun(us, PluginRun(ut, audio.in))

\* the nearest value to v inside [lo, hi]
Clamp(v, lo, hi) == LET m == IF v < hi THEN v ELSE hi
                    IN IF m < lo THEN lo ELSE m

C10_SetValueDelegates ==
    /\ (jni.op = "setValue" /\ jni.plugin # 0 /\ jni.index = CtlPort) =>
          inst[jni.plugin].control = Clamp(jni.value, CtlMin, CtlMax)
    /\ \A i \in InstIds : inst[i].state = "active" =>
          (CtlMin <= inst[i].control /\ inst[i].control <= CtlMax)

(* C11: within one registry, after any sequence of map and unmap calls:     *)
(* map(s) returns the same id on every call, distinct strings get distinct   *)
(* ids, no id is 0, and unmap(map(s)) = s.                                   *)
C11_UridBijection ==
    /\ \A t1, t2 \in urid_issued :
          t1[1] = t2[1] => (t1[2] = t2[2] <=> t1[3] = t2[3])
    /\ \A t \in urid_issued : t[3] # 0 /\ urid_unmap[t[1]][t[3]] = t[2]
    /\ \A t \in urid_issued :
          (urid_last.reg = t[1] /\ urid_last.urid = t[3]) => urid_last.ret = t[2]

\* a registry has given out as many ids as there are strings, and unmap of
\* the last of them returned its string
C11_Witness ==
    \E t \in urid_issued :
        /\ t[3] = MaxUris /\ t[2] # StrOf(MaxUris)
        /\ urid_last.reg = t[1] /\ urid_last.urid = t[3] /\ urid_last.ret = t[2]
        /\ Cardinality({x \in urid_issued : x[1] = t[1]}) = MaxUris

(* C12: for any two plugin instances and any URI string, map returns the    *)
(* same id in both, whatever order the URIs were mapped in.                  *)
C12_SameIdAcrossInstances ==
    \A t1, t2 \in urid_issued : t1[2] = t2[2] => t1[3] = t2[3]

\* the instances the slots held when the JNI call was entered, except the
\* one in slot p, are still in service
OthersActive(p) ==
    \A s \in Slots : (s # p /\ jni.before[s] # 0) =>
                        inst[jni.before[s]].state = "active"

(* C13: when addPlugin returns -1 every slot, the target slot included,     *)
(* holds the instance it held before the call, and none of them is closed.   *)
C13_FailedAddKeepsChain ==
    (jni.pc = "ret" /\ jni.op = "addPlugin" /\ jni.ret = -1) =>
        /\ plugin_slot = jni.before
        /\ OthersActive(0)

(* C14: deletePlugin(slot) on an occupied slot leaves that slot empty, the  *)
(* instance that was in it closed, and every other slot and instance as it   *)
(* was; on an empty slot it changes nothing.                                 *)
C14_DeleteClosesInstance ==
    (jni.pc = "ret" /\ jni.op = "deletePlugin") =>
        IF jni.pos \in Slots /\ jni.before[jni.pos] # 0
          THEN /\ ~crashed
               /\ plugin_slot = [jni.before EXCEPT ![jni.pos] = 0]
               /\ inst[jni.before[jni.pos]].state \in {"closed", "freed"}
               /\ OthersActive(jni.pos)
          ELSE /\ plugin_slot = jni.before
               /\ OthersActive(0)

\* the unread bytes of the request ring, oldest first
ReqContent ==
    [k \in 1..RingReadSpace(req) |->
        req.buf[(req.read_ptr + k - 1) % WorkRingSize]]

RECURSIVE Framed(_)
\* the records, each a four-byte size followed by that many bytes, one
\* after the other
Framed(records) ==
    IF records = <<>> THEN <<>>
    ELSE U32Bytes(Len(Head(records))) \o Head(records) \o Framed(Tail(records))

(* C15: schedule_work returns the no-space error and leaves the request     *)
(* ring as it was when the ring has fewer than 4 + size free bytes, and      *)
(* otherwise writes the whole record and returns success; outside a call     *)
(* the unread bytes of the ring are exactly the accepted records not yet     *)
(* taken by the worker, each a 4-byte size followed by its payload.          *)
C15_ScheduleAllOrNothing ==
    /\ (sched.pc \in {"idle", "ret"} /\ wk.pc # "data") =>
          /\ Len(worked) <= Len(scheduled)
          /\ ReqContent =
                Framed(SubSeq(scheduled, Len(worked) + 1, Len(scheduled)))
    /\ sched.pc = "ret" =>
          IF sched.space < HdrLen + sched.size
            THEN /\ sched.ret = WORKER_ERR_NO_SPACE
                 /\ req.write_ptr = sched.w0
            ELSE /\ sched.ret = WORKER_SUCCESS
                 /\ req.write_ptr = (sched.w0 + HdrLen + sched.size) % SIZE_MOD
                 /\ scheduled[Len(scheduled)] = sched.data

\* a call is refused although the header alone would have fit, after the
\* ring has wrapped around
C15_Witness ==
    /\ sched.pc = "ret" /\ sched.ret = WORKER_ERR_NO_SPACE
    /\ sched.space >= HdrLen
    /\ req.write_ptr > WorkRingSize
    /\ Len(worked) >= 1

\* what the UI thread can read of an atom output port: the port's AtomState
\* (the other members of AtomState are the UI's own message slot)
UiVisible == evt_ring

(* C16: whenever process() passes over an outgoing event because the port's *)
(* ring lacks space for it, state the UI can read changes (an overrun        *)
(* counter is incremented).                                                  *)
C16_DropCounted ==
    [][evt_dropped' # evt_dropped => UiVisible' # UiVisible]_vars

(* C17: a process() call that finds the shutdown flag set, the instance     *)
(* absent, a buffer null or numFrames <= 0 returns false having connected    *)
(* no port, run nothing and not touched the pending flag of a UI->DSP        *)
(* message.                                                                  *)
C17_GuardsRefuse ==
    (proc.pc # "idle" /\
     (proc.sh0 \/ ~proc.inst0 \/ ~proc.in_ok \/ ~proc.out_ok \/ proc.frames <= 0))
       => /\ proc.pc = "ret"
          /\ proc.ret = FALSE
          /\ proc.steps = {}

\* between stop() and the next start(), with a message pending and valid
\* arguments, process() has returned false
C17_Witness ==
    /\ proc.pc = "ret" /\ proc.sh0 /\ proc.inst0
    /\ proc.in_ok /\ proc.out_ok /\ proc.frames > 0
    /\ proc.pending0 /\ lv2.pending /\ lv2.shutdown_
    /\ proc.ret = FALSE

(* C18: saving does not change a control value, and loading a saved state   *)
(* sets every control port to the value it had when the state was saved,     *)
(* whatever it was changed to in between.                                    *)
C18_SaveLoadRestores ==
    /\ ~st_crashed
    /\ st_last.op = "save" => st_control = st_last.before
    /\ (st_last.op = "load" /\ st_last.ret) => st_control = st_file.truth

(* C19: when loadState cannot read the state file, or there is no           *)
(* instance, it returns false and the control value is what it was before    *)
(* the call.                                                                 *)
C19_FailedLoadKeepsState ==
    st_last.op = "load" =>
        /\ (~st_last.readable \/ ~st_last.inst) => ~st_last.ret
        /\ ~st_last.ret => st_control = st_last.before

\* a state was saved and lost, the control was changed, and loadState
\* returned false on an instance
C19_Witness ==
    /\ st_last.op = "load" /\ ~st_last.ret /\ st_last.inst
    /\ ~st_last.readable
    /\ st_control # CtlDefault /\ st_control = st_last.before

(* C20: when the UI has finished two writes to the same atom input port     *)
(* and no DSP cycle took the first before the second was in place, the       *)
(* first message is never delivered, the second is injected at most once,    *)
(* and once a cycle that began after the second write has finished, the      *)
(* second message has been injected, alone.                                  *)
C20_LastWriterWins ==
    (ui_sent = 2 /\ ui.pc = "idle" /\ ui.took = 0) =>
        /\ Injections(1) = 0
        /\ Injections(2) <= 1
        /\ served = 2 => (Len(observed) = 1 /\ observed[1].body = 2)

\* the atom a call of readAtomMessage returned is event n as the plugin
\* emitted it: header and body of one event, the length returned its total
ReadIsEvent(r, n) ==
    \E size \in 1..MaxBody :
        /\ r.out = AtomBytes(Event(n, size))
        /\ r.ret = AtomHdrLen + size

(* C21: the atoms the UI reads from the DSP->UI ring are, in order, a       *)
(* subsequence of the events the plugin emitted: each atom read is the      *)
(* header and the body of one emitted event, it comes later in the emission *)
(* order than the atom read before it, and no part of a dropped event is    *)
(* ever read.                                                               *)
C21_ReadsAreSubsequence ==
    ui_read.ret > 0 =>
        /\ ReadType(ui_read) \in 1..evt_emitted
        /\ ReadType(ui_read) > ui_read.prev
        /\ ReadIsEvent(ui_read, ReadType(ui_read))

\* an atom is read whole after an event emitted before it was dropped for
\* lack of space and an earlier one had been read
C21_Witness ==
    /\ ui_read.ret > AtomHdrLen + 1
    /\ ui_read.prev > 0
    /\ ReadType(ui_read) > ui_read.prev + 1
    /\ evt_dropped > 0

(* C22: closePlugin is idempotent: whatever sequence of closePlugin calls   *)
(* and the destructor runs on an object, no allocation of the object (the   *)
(* worker's rings, the LV2 instance, the atom buffers, the controls, the    *)
(* Lilv nodes) is freed a second time.                                      *)
C22_CloseIdempotent == \A r \in Resources : heap[r] # "twice"

\* a step in which readAtomMessage returned an atom or moved the read index
ReadStep ==
    ui_read' # ui_read \/ evt_ring'.read_ptr # evt_ring.read_ptr

(* C23: a call of readAtomMessage either returns the total length of the    *)
(* record at the read index, header plus body of one emitted event, copies   *)
(* exactly that record and advances the read index by exactly that length,   *)
(* or returns 0 and leaves the ring as it was; with fewer bytes in the ring  *)
(* than an atom header it returns 0.                                         *)
C23_ReadOneOrNothing ==
    [][ReadStep =>
         /\ IF ui_read'.ret = 0
              THEN evt_ring' = evt_ring
              ELSE /\ \E n \in 1..evt_emitted : ReadIsEvent(ui_read', n)
                   /\ ui_read'.out = EvtPeek(evt_ring, ui_read'.ret)
                   /\ evt_ring' = [evt_ring EXCEPT !.read_ptr =
                                      (@ + ui_read'.ret) % SIZE_MOD]
         /\ EvtReadSpace(evt_ring) < AtomHdrLen => ui_read'.ret = 0]_vars

\* a call returned one atom and left the record behind it in the ring
C23_Witness ==
    /\ ui_read.ret > 0
    /\ EvtReadSpace(evt_ring) > AtomHdrLen
    /\ U32Of(SubSeq(EvtPeek(evt_ring, AtomHdrLen), 5, 8)) = ReadType(ui_read) + 1

(* C24: in every reachable state of the chain, each non-empty slot refers   *)
(* to an instance whose initialize() succeeded, that has been started and    *)
(* that has not been closed.                                                 *)
C24_SlotsHoldActive ==
    \A s \in Slots : plugin_slot[s] # 0 => inst[plugin_slot[s]].state = "active"

(* C25: when the plugin requires a feature URI that is not in the host's    *)
(* feature table, initialize() returns false, no LV2 instance is created,    *)
(* no worker thread is started and nothing is activated.                     *)
C25_MissingFeatureRejects ==
    (init_last.called /\ ~(init_last.required \subseteq HostFeatures)) =>
        /\ ~init_last.ret
        /\ ~init_last.instantiated /\ ~init_last.worker /\ ~init_last.activated
        /\ heap["instance"] = "none" /\ heap["rings"] = "none"
        /\ wt.pc = "none" /\ ~pl.active /\ ~pl.instance_

\* initialize() has run on a plugin that requires the worker feature, which
\* the host has, and one it has not
C25_Witness ==
    /\ init_last.called
    /\ "foreign#feature" \in init_last.required
    /\ "worker#schedule" \in init_last.required
    /\ heap["atoms"] = "live"

\* the order of the steps of close() as specified
CloseOrder == <<"shutdown", "stop_worker", "join", "free_rings", "deactivate",
                "free_instance", "free_atoms", "free_nodes">>

StepRank(step) == CHOOSE k \in 1..Len(CloseOrder) : CloseOrder[k] = step

(* C26: closePlugin sets the shutdown flag first, then stops and joins the  *)
(* worker, deactivates and frees the instance, frees the atom buffers and    *)
(* frees the nodes, in this order; a process() call that starts after        *)
(* closePlugin began finds the flag set and returns false.                   *)
C26_CloseOrder ==
    /\ \A i, j \in 1..Len(cl.order) :
          i < j => StepRank(cl.order[i]) < StepRank(cl.order[j])
    /\ cl.pc \notin {"idle", "exchange"} => pl.shutdown_
    /\ (tp.pc # "idle" /\ tp.after_close) => ~tp.ret

\* the requests written whole to the ring so far, in order: those whose
\* schedule_work returned success and the one about to (an empty payload is
\* whole once the size is written)
WrittenWhole ==
    scheduled \o (IF \/ sched.pc = "pending"
                     \/ sched.pc = "data" /\ sched.size = 0
                    THEN <<sched.data>> ELSE <<>>)

(* C27: every request for which schedule_work returned success is           *)
(* eventually passed to work() exactly once, in the order scheduled, with    *)
(* the size and the payload bytes that were scheduled; the worker never      *)
(* takes a record whose payload is only partly written.                      *)
C27_WorkedInOrder ==
    /\ [](/\ Len(worked) <= Len(WrittenWhole)
          /\ \A k \in 1..Len(worked) : worked[k] = WrittenWhole[k])
    /\ \A k \in 1..(MaxRecs + 1) :
          (Len(scheduled) >= k) ~> (Len(worked) >= k)

\* two requests were worked; a third is being written after the write index
\* went round the ring, and the worker has found its size but not yet its
\* payload
C27_Witness ==
    /\ Len(worked) = 2 /\ Len(scheduled) = 2
    /\ sched.pc = "data" /\ sched.size > 0
    /\ wk.pc = "check"
    /\ req.write_ptr > WorkRingSize

\* the responses written whole to the ring so far, in order
RespondedWhole ==
    responded \o (IF rsp.pc = "data" /\ rsp.size = 0 THEN <<rsp.data>>
                                                     ELSE <<>>)

(* C28: every response for which the respond callback returned success is   *)
(* passed to work_response exactly once, in respond order, with its bytes,   *)
(* by a drain that follows; a response refused for lack of space returns     *)
(* no-space and no byte of it is ever delivered.                             *)
C28_ResponsesInOrder ==
    /\ [](/\ Len(delivered) <= Len(RespondedWhole)
          /\ \A k \in 1..Len(delivered) : delivered[k] = RespondedWhole[k]
          /\ rsp.ret = WORKER_ERR_NO_SPACE =>
                \A k \in 1..Len(RespondedWhole) :
                    rsp.size > 0 => RespondedWhole[k] # rsp.data)
    /\ \A k \in 1..(MaxRecs + 1) :
          (Len(responded) >= k) ~> (Len(delivered) >= k)

\* of three responses one was refused for lack of space and the two others
\* were delivered
C28_Witness ==
    /\ resp_calls = 3 /\ rsp.pc = "idle"
    /\ Len(responded) = 2 /\ Len(delivered) = 2
    /\ delivered[2] = WorkData(3, MaxWork)

(* C29: once running is false the worker thread leaves its loop and ends,   *)
(* after at most one more turn of the loop; the request and response rings   *)
(* are freed only after the thread has ended, and the worker never touches   *)
(* a freed ring.                                                             *)
C29_WorkerTeardown ==
    /\ [](/\ ~wt.bad
          /\ wt.late <= 1
          /\ heap["rings"] # "live" => wt.pc \in {"none", "exited"})
    /\ (wt.pc # "none" /\ ~pl.running) ~> (wt.pc = "exited")

\* the rings were freed after the worker, one turn of its loop under way
\* when running was cleared, had ended
C29_Witness ==
    /\ heap["rings"] = "freed"
    /\ wt.pc = "exited" /\ wt.late = 1

(* C30: during the export of an atom output port an event with a body of    *)
(* size zero is skipped and the loop goes on: when the export of a cycle     *)
(* has ended, every event of the sequence that has a body was reached, and   *)
(* written to the ring if it fitted.                                         *)
C30_ZeroSizeSkipped ==
    evt.pc = "reset" =>
        \A k \in 1..Len(out_seq) : out_seq[k].size > 0 => k < evt.i

(* C31: at the moment run() is invoked, on every cycle, the atom input port *)
(* holds a sequence of type Sequence whose header size is the size of the   *)
(* sequence body header when no message was injected, and that plus the     *)
(* padded size of the event when one was; header and sequence together      *)
(* never exceed the port's buffer.                                          *)
C31_InputSequenceWellFormed ==
    sq.pc = "run" =>
        /\ sq_in.type = "Sequence"
        /\ sq_in.size = IF sq.took /\ sq_in.appended
                          THEN SeqBodyLen + PadSize(EvHdrLen + sq.n)
                          ELSE SeqBodyLen
        /\ AtomHdrLen + sq_in.size <= AtomBufSize

(* C32: at the moment run() is invoked, on the first cycle as on every      *)
(* later one, the atom output port's header advertises exactly the room     *)
(* allocated behind it: the buffer size minus the atom header.              *)
C32_OutputAdvertisesRoom ==
    sq.pc = "run" => sq_out.size = AtomBufSize - AtomHdrLen

(* C33: when the payload taken in Step B is larger than the port's buffer,  *)
(* nothing is written past the end of the scratch buffer nor past the end   *)
(* of the port's buffer, and the port's sequence is left without the event. *)
C33_OversizeRejected ==
    (sq.pc = "run" /\ sq.took /\ sq.n > AtomBufSize) =>
        /\ sq_scratch.used <= sq_scratch.len
        /\ sq_in.extent <= AtomBufSize
        /\ ~sq_in.appended

(* C34: the activate and deactivate calls made on the LV2 instance strictly *)
(* alternate, starting with activate: across initialize, start, stop and    *)
(* closePlugin in any order, activate is never called on an active          *)
(* instance and deactivate never on an inactive one.                        *)
C34_ActivateAlternates == ~lv2.misuse

(* C35: stop() may be called while the audio thread is inside process():    *)
(* run() is never executed on an instance that stop() has deactivated.      *)
C35_StopSafeDuringProcess ==
    "run" \in proc.steps => proc.run_active

(* C36: for every control port, the value held by its PluginControl (what   *)
(* getValue returns) equals the backing scalar connected to the plugin      *)
(* instance after any sequence of setValue, reset, loadState and Control    *)
(* Surface setValue calls, so run() reads the value set through             *)
(* getControl(symbol)->setValue.                                            *)
C36_ControlBacksScalar ==
    /\ bd_control.value_ = ConnectedScalar
    /\ bd_run.seen = bd_run.held

(* C37: the payload, length and type that the DSP injects in one cycle all  *)
(* come from a single UI write: no interleaving of a UI write with          *)
(* process() makes the DSP read a payload partly from one write and partly  *)
(* from another.                                                            *)
C37_InjectedFromOneWrite ==
    \A i \in DOMAIN observed : observed[i].body # Torn

(* C38: no sequence of Control Surface calls dereferences a null slot       *)
(* instance: setValue on an in-range slot that holds no plugin returns      *)
(* without effect.                                                          *)
C38_NoNullDereference ==
    (jni.op = "setValue" /\ jni.pos \in Slots /\ jni.plugin = 0
        /\ jni.index < NumPorts) => ~crashed

\* the plugin has emitted its last event and Step E has exported it
DspQuiet == evt_emitted = MaxEmit /\ evt.pc = "idle"

(* C39: if the UI thread keeps calling readAtomMessage with a fixed buffer  *)
(* size and the DSP stops producing, the DSP -> UI ring eventually becomes  *)
(* empty: no message, including one larger than the UI's buffer, blocks the *)
(* messages queued behind it forever.                                       *)
C39_RingEventuallyEmpty ==
    DspQuiet ~> (EvtReadSpace(evt_ring) = 0)

\* one step moves an index forward by at most the capacity, in size_t
IndexStep ==
    /\ \E k \in 0..RbSize : write_ptr' = (write_ptr + k) % SIZE_MOD
    /\ \E k \in 0..RbSize : read_ptr' = (read_ptr + k) % SIZE_MOD

\* every cell access of the call in progress is masked into the buffer
MaskedAccess ==
    /\ Masked(writer.idx + writer.i) \in DOMAIN buf
    /\ Masked(reader.idx + reader.i) \in DOMAIN buf

(* C40: the ring buffer's read and write indices only ever increase and are *)
(* masked on access; read_space = write_ptr - read_ptr stays within 0..size *)
(* and the FIFO content stays correct when the indices wrap around 2^w      *)
(* (unsigned overflow of the index type).                                   *)
C40_IndexWrap ==
    /\ [](/\ 0 <= ReadSpaceOf(write_ptr, read_ptr)
          /\ ReadSpaceOf(write_ptr, read_ptr) <= RbSize
          /\ (writer.pc = "idle" /\ reader.pc = "idle") =>
                ReadSpaceOf(write_ptr, read_ptr) = Len(written) - Len(readout)
          /\ MaskedAccess
          /\ Len(readout) <= Len(written)
          /\ \A k \in 1..Len(readout) : readout[k] = written[k])
    /\ [][IndexStep]_vars

\* the write index has wrapped past the largest value of the index type, the
\* read index has not, and the reader has returned bytes since
C40_Witness ==
    /\ write_ptr < read_ptr
    /\ Len(readout) > 0
    /\ ReadSpaceOf(write_ptr, read_ptr) > 0

====
